---------------------------- MODULE Spec2Model ----------------------------
(***************************************************************************)
(* A model of the outfit compatibility and recommendation engine of        *)
(* Style-It-Yourself (backend/app/services/compatability.py,               *)
(* color_harmony.py, matching.py and utils/constants.py).                  *)
(*                                                                         *)
(* The engine is a set of pure functions.  Each function is an operator    *)
(* that computes what the Python computes, statement by statement; the     *)
(* state machine is a caller that builds the arguments (a base item, an    *)
(* outfit, a list of filled categories) and then calls one function, whose *)
(* return value is kept in `result'.                                       *)
(*                                                                         *)
(* Representation.                                                         *)
(*  - A formality is a float in [1.0, 5.0].  It is kept as a number of     *)
(*    quarter levels: the integer n stands for n/4, so 4 is 1.0, 5 is 1.25 *)
(*    and 20 is 5.0.  Quarter levels are exact in binary floating point,   *)
(*    so the sums and comparisons below are those of the floats.           *)
(*  - A hex colour code is the sequence of its characters.                 *)
(*  - A message (an f-string in the source) is a record of its kind and    *)
(*    of the values formatted into it.                                     *)
(*  - None is the message of kind "None".                                  *)
(*  - A match score (a float with a square root in it) is kept exactly, as *)
(*    the pair (whole, root) that stands for (whole - sqrt(root)) / 12.    *)
(*  - The functions are modelled on values; where the identity of a list   *)
(*    matters (who holds it, who changes it in place) the variable heap    *)
(*    maps the references of the list objects to their contents.           *)
(***************************************************************************)
EXTENDS Integers, Sequences, FiniteSets, TLC

VARIABLES base_item, items, new_item, filled_categories, result, heap

vars == <<base_item, items, new_item, filled_categories, result, heap>>

---------------------------------------------------------------------------
(* Arithmetic helpers (Python's max, min, abs) and sequences.              *)

Max(a, b) == IF a >= b THEN a ELSE b

Min(a, b) == IF a <= b THEN a ELSE b

Abs(a) == IF a < 0 THEN -a ELSE a

Range(s) == {s[i] : i \in 1..Len(s)}

\* The formality n/1 as a number of quarter levels.
Level(n) == 4 * n

\* A formatted message: its kind, the strings and the numbers put into it.
Msg(kind, strs, nums) == [kind |-> kind, strs |-> strs, nums |-> nums]

None == Msg("None", <<>>, <<>>)

---------------------------------------------------------------------------
(* utils/constants.py                                                      *)

CATEGORY_L1 == <<"Tops", "Bottoms", "Shoes", "Accessories", "Outerwear", "Full Body">>

CATEGORY_TAXONOMY ==
  [l1 \in Range(CATEGORY_L1) |->
     CASE l1 = "Tops" -> <<"T-Shirts", "Polos", "Casual Shirts", "Dress Shirts",
                           "Sweaters", "Hoodies", "Blazers">>
       [] l1 = "Bottoms" -> <<"Jeans", "Chinos", "Dress Pants", "Shorts", "Joggers", "Skirts">>
       [] l1 = "Shoes" -> <<"Sneakers", "Loafers", "Oxfords", "Boots", "Sandals", "Heels">>
       [] l1 = "Accessories" -> <<"Watches", "Belts", "Bags", "Hats", "Scarves",
                                  "Jewelry", "Sunglasses">>
       [] l1 = "Outerwear" -> <<"Jackets", "Coats", "Vests">>
       [] l1 = "Full Body" -> <<"Dresses", "Suits">>]

NEUTRAL_COLORS == <<"black", "white", "gray", "grey", "navy", "beige", "cream", "tan", "khaki">>

\* NEUTRAL_COLOR_DATA[name]["hex"], the characters of the code.
NEUTRAL_COLOR_HEX ==
  [name \in Range(NEUTRAL_COLORS) |->
     CASE name = "black" -> <<"#", "0", "0", "0", "0", "0", "0">>
       [] name = "white" -> <<"#", "F", "F", "F", "F", "F", "F">>
       [] name = "gray" -> <<"#", "8", "0", "8", "0", "8", "0">>
       [] name = "grey" -> <<"#", "8", "0", "8", "0", "8", "0">>
       [] name = "navy" -> <<"#", "0", "B", "1", "C", "2", "D">>
       [] name = "beige" -> <<"#", "F", "5", "F", "5", "D", "C">>
       [] name = "cream" -> <<"#", "F", "F", "F", "D", "D", "0">>
       [] name = "tan" -> <<"#", "D", "2", "B", "4", "8", "C">>
       [] name = "khaki" -> <<"#", "C", "3", "B", "0", "9", "1">>]

SHOE_TYPES == {"Oxfords", "Loafers", "Sneakers", "Boots", "Sandals", "Heels"}

SHOE_BOTTOM_PAIRINGS ==
  [l2 \in SHOE_TYPES |->
     CASE l2 = "Oxfords" -> <<"Dress Pants", "Chinos", "Suits">>
       [] l2 = "Loafers" -> <<"Dress Pants", "Chinos", "Suits", "Jeans">>
       [] l2 = "Sneakers" -> <<"Jeans", "Joggers", "Shorts", "Chinos">>
       [] l2 = "Boots" -> <<"Jeans", "Chinos", "Dress Pants">>
       [] l2 = "Sandals" -> <<"Shorts", "Jeans", "Skirts", "Dresses">>
       [] l2 = "Heels" -> <<"Dresses", "Dress Pants", "Skirts", "Suits">>]

REQUIRED_CATEGORIES_STANDARD == <<"Tops", "Bottoms", "Shoes">>

REQUIRED_CATEGORIES_FULLBODY == <<"Full Body", "Shoes">>

MAX_OUTFIT_ITEMS == 6

\* dict.get(key, default) on a table.
Get(table, key, default) == IF key \in DOMAIN table THEN table[key] ELSE default

---------------------------------------------------------------------------
(* models/schemas.py: the records the functions take.                      *)

HSL(h, s, l) == [h |-> h, s |-> s, l |-> l]

Color(hex, hsl, name, is_neutral) ==
  [hex |-> hex, hsl |-> hsl, name |-> name, is_neutral |-> is_neutral]

Category(l1, l2) == [l1 |-> l1, l2 |-> l2]

ClothingItemBase(color, category, formality, aesthetics) ==
  [color |-> color, category |-> category, formality |-> formality,
   aesthetics |-> aesthetics]

---------------------------------------------------------------------------
(* services/color_harmony.py                                               *)

\* str.lower() on the colour names the model supplies.
Lower(name) ==
  CASE name = "Navy" -> "navy"
    [] name = "BLACK" -> "black"
    [] name = "Red" -> "red"
    [] name = "Silver" -> "silver"
    [] name = "Dark Teal" -> "dark teal"
    [] OTHER -> name

is_neutral_color(color_name) == Lower(color_name) \in Range(NEUTRAL_COLORS)

\* Mutant of get_hue_distance: no wrap across 0.
get_hue_distance_unwrapped(h1, h2) == Abs(h1 - h2)

get_hue_distance(h1, h2) ==
  LET distance == Abs(h1 - h2)
  IN  Min(distance, 360 - distance)

get_hue_distance_HSL(hsl1, hsl2) == get_hue_distance(hsl1.h, hsl2.h)

are_colors_analogous(hsl1, hsl2, threshold) ==
  get_hue_distance_HSL(hsl1, hsl2) <= threshold

are_colors_complementary(hsl1, hsl2, threshold) ==
  LET hue_distance == get_hue_distance_HSL(hsl1, hsl2)
      l == 180 - threshold
      r == 180 + threshold
  IN  l <= hue_distance /\ hue_distance <= r

\* Mutant of are_colors_triadic: a band of three thresholds either side of
\* 120, which reaches into the complementary band.
are_colors_triadic_wide(hsl1, hsl2, threshold) ==
  LET hue_distance == get_hue_distance_HSL(hsl1, hsl2)
      l == 120 - 3 * threshold
      r == 120 + 3 * threshold
  IN  l <= hue_distance /\ hue_distance <= r

are_colors_triadic(hsl1, hsl2, threshold) ==
  LET hue_distance == get_hue_distance_HSL(hsl1, hsl2)
      l == 120 - threshold
      r == 120 + threshold
  IN  l <= hue_distance /\ hue_distance <= r

\* Mutant of check_color_compatibility: the analogous test comes before the
\* neutral test.
check_color_compatibility_analogous_first(color1, color2) ==
  IF are_colors_analogous(color1.hsl, color2.hsl, 30)
    THEN <<TRUE, "analogous">>
  ELSE IF is_neutral_color(color1.name) \/ is_neutral_color(color2.name)
    THEN <<TRUE, "neutral">>
  ELSE IF are_colors_complementary(color1.hsl, color2.hsl, 15)
    THEN <<TRUE, "complementary">>
  ELSE IF are_colors_triadic(color1.hsl, color2.hsl, 15)
    THEN <<TRUE, "triadic">>
  ELSE <<FALSE, "none">>

\* Mutant of check_color_compatibility: the neutral test reads the is_neutral
\* flag of the colours instead of their names.
check_color_compatibility_by_flag(color1, color2) ==
  IF color1.is_neutral \/ color2.is_neutral
    THEN <<TRUE, "neutral">>
  ELSE IF are_colors_analogous(color1.hsl, color2.hsl, 30)
    THEN <<TRUE, "analogous">>
  ELSE IF are_colors_complementary(color1.hsl, color2.hsl, 15)
    THEN <<TRUE, "complementary">>
  ELSE IF are_colors_triadic(color1.hsl, color2.hsl, 15)
    THEN <<TRUE, "triadic">>
  ELSE <<FALSE, "none">>

\* The pair (is_compatible, harmony_type).
check_color_compatibility(color1, color2) ==
  IF is_neutral_color(color1.name) \/ is_neutral_color(color2.name)
    THEN <<TRUE, "neutral">>
  ELSE IF are_colors_analogous(color1.hsl, color2.hsl, 30)
    THEN <<TRUE, "analogous">>
  ELSE IF are_colors_complementary(color1.hsl, color2.hsl, 15)
    THEN <<TRUE, "complementary">>
  ELSE IF are_colors_triadic(color1.hsl, color2.hsl, 15)
    THEN <<TRUE, "triadic">>
  ELSE <<FALSE, "none">>

---------------------------------------------------------------------------
(* services/color_harmony.py: synthesis of colours.                        *)

\* The three channels of hsl_to_rgb.  With S = hsl.s and L = hsl.l the floats
\* are fractions of denominator 600000: c = 60*cn, x = xn, m = 30*(200L - cn),
\* where cn = S * (100 - |2L - 100|); a channel is int((p + m) * 255).
\* The arithmetic here is exact.  The floats of the source agree with it on
\* every colour the runs below synthesize; on some other inputs, such as
\* HSL(20, 25, 84), a float product falls just short of a whole number and
\* the source's channel is one lower.
hsl_to_rgb(hsl) ==
  LET h == hsl.h % 360
      cn == hsl.s * (100 - Abs(2 * hsl.l - 100))
      c == 60 * cn
      x == cn * (60 - Abs((h % 120) - 60))
      m == 30 * (200 * hsl.l - cn)
      rgb_primes == << <<c, x, 0>>, <<x, c, 0>>, <<0, c, x>>,
                       <<0, x, c>>, <<x, 0, c>>, <<c, 0, x>> >>
      p == rgb_primes[((h \div 60) % 6) + 1]
  IN  [i \in 1..3 |-> ((p[i] + m) * 255) \div 600000]

HexDigits == <<"0", "1", "2", "3", "4", "5", "6", "7", "8", "9",
               "A", "B", "C", "D", "E", "F">>

\* f"{n:02X}"
TwoHex(n) == <<HexDigits[(n \div 16) + 1], HexDigits[(n % 16) + 1]>>

hsl_to_hex(hsl) ==
  LET rgb == hsl_to_rgb(hsl)
  IN  <<"#">> \o TwoHex(rgb[1]) \o TwoHex(rgb[2]) \o TwoHex(rgb[3])

\* str.lower() on the characters of a hex code.
LowerHex(hex) ==
  [i \in 1..Len(hex) |->
     CASE hex[i] = "A" -> "a" [] hex[i] = "B" -> "b" [] hex[i] = "C" -> "c"
       [] hex[i] = "D" -> "d" [] hex[i] = "E" -> "e" [] hex[i] = "F" -> "f"
       [] OTHER -> hex[i]]

\* Mutant of get_color_name_from_hsl: the red bucket closed with `h < 360',
\* as the schema of HSL bounds the hue.
get_color_name_from_hsl_below_360(hsl) ==
  LET h == hsl.h
      s == hsl.s
      l == hsl.l
  IN  IF s < 10 THEN (IF l < 15 THEN "black" ELSE IF l > 90 THEN "white" ELSE "gray")
      ELSE IF l < 5 THEN "black"
      ELSE IF l > 95 THEN "white"
      ELSE IF (0 <= h /\ h < 15) \/ (345 <= h /\ h < 360) THEN "red"
      ELSE IF 15 <= h /\ h < 45 THEN "orange"
      ELSE IF 45 <= h /\ h < 65 THEN "yellow"
      ELSE IF 65 <= h /\ h < 150 THEN "green"
      ELSE IF 150 <= h /\ h < 200 THEN (IF l <= 50 THEN "teal" ELSE "cyan")
      ELSE IF 200 <= h /\ h < 230 THEN (IF l <= 20 THEN "navy" ELSE "blue")
      ELSE IF 230 <= h /\ h < 290 THEN (IF l <= 50 THEN "violet" ELSE "purple")
      ELSE IF 290 <= h /\ h < 345 THEN (IF l <= 65 THEN "magenta" ELSE "pink")
      ELSE "clear"

get_color_name_from_hsl(hsl) ==
  LET h == hsl.h
      s == hsl.s
      l == hsl.l
  IN  IF s < 10 THEN (IF l < 15 THEN "black" ELSE IF l > 90 THEN "white" ELSE "gray")
      ELSE IF l < 5 THEN "black"
      ELSE IF l > 95 THEN "white"
      ELSE IF (0 <= h /\ h < 15) \/ (345 <= h /\ h <= 360) THEN "red"
      ELSE IF 15 <= h /\ h < 45 THEN "orange"
      ELSE IF 45 <= h /\ h < 65 THEN "yellow"
      ELSE IF 65 <= h /\ h < 150 THEN "green"
      ELSE IF 150 <= h /\ h < 200 THEN (IF l <= 50 THEN "teal" ELSE "cyan")
      ELSE IF 200 <= h /\ h < 230 THEN (IF l <= 20 THEN "navy" ELSE "blue")
      ELSE IF 230 <= h /\ h < 290 THEN (IF l <= 50 THEN "violet" ELSE "purple")
      ELSE IF 290 <= h /\ h < 345 THEN (IF l <= 65 THEN "magenta" ELSE "pink")
      ELSE "clear"

hsl_to_color(hsl) ==
  LET name == get_color_name_from_hsl(hsl)
  IN  Color(hsl_to_hex(hsl), hsl, name, is_neutral_color(name))

\* Mutant of get_analogous_hsl: 60 degrees either side.
get_analogous_hsl_wide(base_hsl) ==
  << HSL((base_hsl.h + 60) % 360, base_hsl.s, base_hsl.l),
     HSL((base_hsl.h - 60) % 360, base_hsl.s, base_hsl.l) >>

\* The pair of analogous colours, 30 degrees either side.
get_analogous_hsl(base_hsl) ==
  << HSL((base_hsl.h + 30) % 360, base_hsl.s, base_hsl.l),
     HSL((base_hsl.h - 30) % 360, base_hsl.s, base_hsl.l) >>

get_complementary_hsl(base_hsl) ==
  HSL((base_hsl.h + 180) % 360, base_hsl.s, base_hsl.l)

RecommendedColor(hex, name, harmony_type) ==
  [hex |-> hex, name |-> name, harmony_type |-> harmony_type]

\* hsl_to_rec, the inner function of generate_recommended_colors.
hsl_to_rec(base_color, rec_hsl) ==
  LET recColor == hsl_to_color(rec_hsl)
  IN  RecommendedColor(hsl_to_hex(rec_hsl), recColor.name,
                       check_color_compatibility(base_color, recColor)[2])

\* Mutant of neutral_recommendations: no test of seen_hex.
RECURSIVE neutral_recommendations_unseen(_)
neutral_recommendations_unseen(n) ==
  IF n = 0 THEN <<>>
  ELSE Append(neutral_recommendations_unseen(n - 1),
              RecommendedColor(LowerHex(NEUTRAL_COLOR_HEX[NEUTRAL_COLORS[n]]),
                               NEUTRAL_COLORS[n], "neutral"))

\* The loop over NEUTRAL_COLORS[1..n]: the names whose lower-cased hex was not
\* seen before, in order.
RECURSIVE neutral_recommendations(_)
neutral_recommendations(n) ==
  IF n = 0 THEN <<>>
  ELSE LET earlier == neutral_recommendations(n - 1)
           name == NEUTRAL_COLORS[n]
           hx == LowerHex(NEUTRAL_COLOR_HEX[name])
           seen_hex == {earlier[i].hex : i \in 1..Len(earlier)}
       IN  IF hx \in seen_hex THEN earlier
           ELSE Append(earlier, RecommendedColor(hx, name, "neutral"))

\* Every name of NEUTRAL_COLORS has its entry in NEUTRAL_COLOR_DATA, so the
\* ValueError of the loop is not raised; it is the result "ValueError" here.
generate_recommended_colors(base_color, include_neutrals) ==
  LET neutrals == IF include_neutrals
                    THEN neutral_recommendations(Len(NEUTRAL_COLORS))
                    ELSE <<>>
      analogous == get_analogous_hsl(base_color.hsl)
      comp == get_complementary_hsl(base_color.hsl)
  IN  IF include_neutrals /\ \E i \in 1..Len(NEUTRAL_COLORS) :
                               NEUTRAL_COLORS[i] \notin DOMAIN NEUTRAL_COLOR_HEX
        THEN "ValueError"
      ELSE IF is_neutral_color(base_color.name) THEN neutrals
      ELSE neutrals \o << hsl_to_rec(base_color, analogous[1]),
                          hsl_to_rec(base_color, analogous[2]),
                          hsl_to_rec(base_color, comp) >>

---------------------------------------------------------------------------
(* services/compatability.py: the pairwise checks.                         *)

\* f"{x:.1f}" of x = q/4: the number of tenths printed (a tie such as 0.25 or
\* 0.75 is exact in binary and rounds to the even digit).
OneDecimal(q) ==
  (q \div 4) * 10 + (CASE q % 4 = 0 -> 0 [] q % 4 = 1 -> 2 [] q % 4 = 2 -> 5 [] OTHER -> 8)

\* Mutant of check_formality_compatibility: `distance < 2.0' for the warning.
check_formality_compatibility_strict(formality1, formality2) ==
  LET distance == Abs(formality1 - formality2)
  IN  IF distance <= Level(1)
        THEN <<"ok", None>>
      ELSE IF distance < Level(2)
        THEN <<"warning", Msg("Formality gap is 2 levels", <<>>,
                              <<formality1, formality2>>)>>
      ELSE <<"mismatch", Msg("Formality mismatch", <<>>,
                             <<OneDecimal(distance), formality1, formality2>>)>>

\* The pair (status, message).
check_formality_compatibility(formality1, formality2) ==
  LET distance == Abs(formality1 - formality2)
  IN  IF distance <= Level(1)
        THEN <<"ok", None>>
      ELSE IF distance <= Level(2)
        THEN <<"warning", Msg("Formality gap is 2 levels", <<>>,
                              <<formality1, formality2>>)>>
      ELSE <<"mismatch", Msg("Formality mismatch", <<>>,
                             <<OneDecimal(distance), formality1, formality2>>)>>

check_aesthetic_compatibility(aesthetics1, aesthetics2) ==
  LET set1 == Range(aesthetics1)
      set2 == Range(aesthetics2)
  IN  IF set1 = {} \/ set2 = {}
        THEN <<"cohesive", None>>
      ELSE IF set1 \cap set2 # {}
        THEN <<"cohesive", None>>
      ELSE <<"warning", Msg("No shared aesthetic tags", <<>>, <<>>)>>

\* Mutant of check_category_pairing: no `elif item2.category.l1 == "Shoes"',
\* so that a shoe is found only in the first place.
check_category_pairing_first_only(item1, item2) ==
  LET shoe_l2 == item1.category.l2
      allowed_bottoms == Range(Get(SHOE_BOTTOM_PAIRINGS, shoe_l2, <<>>))
      bottom_l2 == item2.category.l2
      warning == <<"warning", Msg("typically don't pair with", <<shoe_l2, bottom_l2>>, <<>>)>>
  IN  IF item1.category.l1 # "Shoes" \/ item2.category.l1 \notin {"Bottoms", "Full Body"}
        THEN <<"ok", None>>
      ELSE IF item2.category.l1 = "Full Body"
        THEN IF "Dresses" \in allowed_bottoms \/ "Suits" \in allowed_bottoms
               THEN <<"ok", None>>
               ELSE warning
      ELSE IF bottom_l2 \in allowed_bottoms
        THEN <<"ok", None>>
      ELSE warning

\* Mutant of check_category_pairing: a shoe type that the pairing table does
\* not hold is not checked at all.
check_category_pairing_known_only(item1, item2) ==
  LET first == item1.category.l1 = "Shoes"
      shoe_item == IF first THEN item1 ELSE item2
      other == IF first THEN item2 ELSE item1
      shoe_l2 == shoe_item.category.l2
      allowed_bottoms == Range(Get(SHOE_BOTTOM_PAIRINGS, shoe_l2, <<>>))
      warning == <<"warning", Msg("typically don't pair with",
                                  <<shoe_l2, other.category.l2>>, <<>>)>>
  IN  IF \/ shoe_item.category.l1 # "Shoes"
         \/ other.category.l1 \notin {"Bottoms", "Full Body"}
         \/ shoe_l2 \notin DOMAIN SHOE_BOTTOM_PAIRINGS
        THEN <<"ok", None>>
      ELSE IF other.category.l1 = "Full Body"
        THEN IF "Dresses" \in allowed_bottoms \/ "Suits" \in allowed_bottoms
               THEN <<"ok", None>>
               ELSE warning
      ELSE IF other.category.l2 \in allowed_bottoms
        THEN <<"ok", None>>
      ELSE warning

check_category_pairing(item1, item2) ==
  LET IsBottom(it) == it.category.l1 = "Bottoms" \/ it.category.l1 = "Full Body"
      first == item1.category.l1 = "Shoes"
      second == ~first /\ item2.category.l1 = "Shoes"
      shoe_item == IF first THEN item1 ELSE item2
      other == IF first THEN item2 ELSE item1
      has_shoe == first \/ second
      has_bottom == has_shoe /\ IsBottom(other)
      bottom_item == other
      shoe_l2 == shoe_item.category.l2
      allowed_bottoms == Range(Get(SHOE_BOTTOM_PAIRINGS, shoe_l2, <<>>))
      bottom_l2 == bottom_item.category.l2
      warning == <<"warning", Msg("typically don't pair with", <<shoe_l2, bottom_l2>>, <<>>)>>
  IN  IF ~has_shoe \/ ~has_bottom
        THEN <<"ok", None>>
      ELSE IF bottom_item.category.l1 = "Full Body"
        THEN IF "Dresses" \in allowed_bottoms \/ "Suits" \in allowed_bottoms
               THEN <<"ok", None>>
               ELSE warning
      ELSE IF bottom_l2 \in allowed_bottoms
        THEN <<"ok", None>>
      ELSE warning

---------------------------------------------------------------------------
(* services/compatability.py: the cohesion score.                          *)

\* The index pairs (i, j), i < j, in the order of the nested loops
\* `for i in range(n): for j in range(i + 1, n)'.
RECURSIVE PairsFrom(_, _, _)
PairsFrom(i, j, n) ==
  IF i > n THEN <<>>
  ELSE IF j > n THEN PairsFrom(i + 1, i + 2, n)
  ELSE <<<<i, j>>>> \o PairsFrom(i, j + 1, n)

PairIndices(n) == PairsFrom(1, 2, n)

\* int(x) of the float num/den: truncation towards zero.
Trunc(num, den) == IF num >= 0 THEN num \div den ELSE -((-num) \div den)

\* Mutant of incompatible_pairs: the test `if not is_compatible' without its
\* `not', so that the compatible pairs are counted.
incompatible_pairs_inverted(all_items) ==
  Len(SelectSeq(PairIndices(Len(all_items)),
                LAMBDA p : check_color_compatibility(all_items[p[1]].color,
                                                     all_items[p[2]].color)[1]))

\* Mutant of incompatible_pairs: only the pairs of the base item, all_items[0],
\* with another member are tested.
incompatible_pairs_with_base(all_items) ==
  Len(SelectSeq(PairIndices(Len(all_items)),
                LAMBDA p : p[1] = 1 /\ ~check_color_compatibility(all_items[p[1]].color,
                                                                 all_items[p[2]].color)[1]))

\* The number of pairs of all_items that check_color_compatibility rejects.
incompatible_pairs(all_items) ==
  Len(SelectSeq(PairIndices(Len(all_items)),
                LAMBDA p : ~check_color_compatibility(all_items[p[1]].color,
                                                      all_items[p[2]].color)[1]))

\* Mutant of formality_penalty: 5 points a level instead of 10.
formality_penalty_halved(all_items) ==
  LET formality_levels == {all_items[i].formality : i \in 1..Len(all_items)}
      hi == CHOOSE f \in formality_levels : \A g \in formality_levels : g <= f
      lo == CHOOSE f \in formality_levels : \A g \in formality_levels : f <= g
  IN  Min((hi - lo) * 5, Level(40))

\* min(formality_range * 10, 40), in quarter points.
formality_penalty(all_items) ==
  LET formality_levels == {all_items[i].formality : i \in 1..Len(all_items)}
      hi == CHOOSE f \in formality_levels : \A g \in formality_levels : g <= f
      lo == CHOOSE f \in formality_levels : \A g \in formality_levels : f <= g
      formality_range == hi - lo
  IN  Min(formality_range * 10, Level(40))

\* set.intersection(*sets) of a non-empty sequence of sets.
RECURSIVE Intersection(_)
Intersection(sets) ==
  IF Len(sets) = 1 THEN sets[1] ELSE sets[1] \cap Intersection(Tail(sets))

\* Mutant of aesthetic_penalty: the list comprehension without its
\* `if item.aesthetics', so that the members without tags are in the
\* intersection as empty sets.
aesthetic_penalty_all_members(all_items) ==
  LET all_aesthetics == [i \in 1..Len(all_items) |-> Range(all_items[i].aesthetics)]
      common_tags == Intersection(all_aesthetics)
  IN  IF all_aesthetics # <<>>
        THEN IF Cardinality(common_tags) = 0 THEN 30
             ELSE IF Cardinality(common_tags) = 1 THEN 10
             ELSE 0
        ELSE 0

aesthetic_penalty(all_items) ==
  LET tagged == SelectSeq(all_items, LAMBDA it : it.aesthetics # <<>>)
      all_aesthetics == [i \in 1..Len(tagged) |-> Range(tagged[i].aesthetics)]
      common_tags == Intersection(all_aesthetics)
  IN  IF all_aesthetics # <<>>
        THEN IF Cardinality(common_tags) = 0 THEN 30
             ELSE IF Cardinality(common_tags) = 1 THEN 10
             ELSE 0
        ELSE 0

\* max(0, min(100, int(score))) of the float score = num/den.
clamp_score(num, den) == Max(0, Min(100, Trunc(num, den)))

\* Mutant of calculate_cohesion_score: 30 points off for every clashing pair
\* (not for their share of the pairs), and int(score) returned as it is.
calculate_cohesion_score_per_pair(its, base) ==
  LET all_items == <<base>> \o its
      after_color == 400 - 120 * incompatible_pairs(all_items)
      after_formality == after_color - formality_penalty(all_items)
      score == after_formality - aesthetic_penalty(all_items) * 4
  IN  IF Len(all_items) < 2 THEN 100 ELSE Trunc(score, 4)

\* The float `score' is the exact fraction num/den with den = 4 * total_pairs:
\* (incompatible_pairs / total_pairs) * 30 is 120 * incompatible_pairs / den,
\* a formality penalty of q quarter points is q * total_pairs / den.
calculate_cohesion_score(its, base) ==
  LET all_items == <<base>> \o its
      total_items == Len(all_items)
      total_pairs == Len(PairIndices(total_items))
      den == 4 * total_pairs
      after_color == 100 * den - 120 * incompatible_pairs(all_items)
      after_formality == after_color - formality_penalty(all_items) * total_pairs
      score == after_formality - aesthetic_penalty(all_items) * den
  IN  IF total_items < 2 THEN 100 ELSE clamp_score(score, den)

---------------------------------------------------------------------------
(* services/compatability.py: validation of one new item.                  *)

\* Mutant of color_warnings: the loop over current_outfit left out, so that
\* the new item's colour is checked against the base item only.
color_warnings_base_only(new, base, current_outfit) ==
  LET vs_base == check_color_compatibility(new.color, base.color)
  IN  IF ~vs_base[1]
        THEN <<Msg("Color may clash with base item", <<vs_base[2]>>, <<>>)>>
        ELSE <<>>

\* 1. The colour checks: against base_item, then against each outfit item.
color_warnings(new, base, current_outfit) ==
  LET vs_base == check_color_compatibility(new.color, base.color)
      vs_item(item) == check_color_compatibility(new.color, item.color)
      clashing == SelectSeq(current_outfit, LAMBDA item : ~vs_item(item)[1])
  IN  (IF ~vs_base[1]
         THEN <<Msg("Color may clash with base item", <<vs_base[2]>>, <<>>)>>
         ELSE <<>>)
      \o [i \in 1..Len(clashing) |->
            Msg("Color may clash with",
                <<clashing[i].category.l2, vs_item(clashing[i])[2]>>, <<>>)]

\* Mutant of formality_step: `elif status == "warning"' without the test
\* `and formality_status == "ok"', so that a later warning overwrites a mismatch.
formality_step_downgrading(acc, new, other) ==
  LET checked == check_formality_compatibility(new.formality, other.formality)
  IN  IF checked[1] = "mismatch"
        THEN [status |-> "mismatch", warnings |-> Append(acc.warnings, checked[2])]
      ELSE IF checked[1] = "warning"
        THEN [status |-> "warning", warnings |-> Append(acc.warnings, checked[2])]
      ELSE acc

\* Mutant of formality_step: the warning branch sets the status without
\* appending its message.
formality_step_silent(acc, new, other) ==
  LET checked == check_formality_compatibility(new.formality, other.formality)
  IN  IF checked[1] = "mismatch"
        THEN [status |-> "mismatch", warnings |-> Append(acc.warnings, checked[2])]
      ELSE IF checked[1] = "warning" /\ acc.status = "ok"
        THEN [status |-> "warning", warnings |-> acc.warnings]
      ELSE acc

\* 2. One formality check: acc is (formality_status, formality_warnings).
formality_step(acc, new, other) ==
  LET checked == check_formality_compatibility(new.formality, other.formality)
  IN  IF checked[1] = "mismatch"
        THEN [status |-> "mismatch", warnings |-> Append(acc.warnings, checked[2])]
      ELSE IF checked[1] = "warning" /\ acc.status = "ok"
        THEN [status |-> "warning", warnings |-> Append(acc.warnings, checked[2])]
      ELSE acc

\* The formality checks against the first n of `others' (base_item, then the
\* outfit items), in order.
RECURSIVE formality_checks(_, _, _)
formality_checks(new, others, n) ==
  IF n = 0 THEN [status |-> "ok", warnings |-> <<>>]
  ELSE formality_step(formality_checks(new, others, n - 1), new, others[n])

\* 4. The category pairing checks: against base_item, then each outfit item.
pairing_warnings(new, base, current_outfit) ==
  LET others == <<base>> \o current_outfit
      warned == SelectSeq(others, LAMBDA item : check_category_pairing(new, item)[1] = "warning")
  IN  [i \in 1..Len(warned) |-> check_category_pairing(new, warned[i])[2]]

validate_item(new, base, current_outfit) ==
  LET colors == color_warnings(new, base, current_outfit)
      color_status == IF colors = <<>> THEN "ok" ELSE "warning"
      formality == formality_checks(new, <<base>> \o current_outfit,
                                    1 + Len(current_outfit))
      aesthetic == check_aesthetic_compatibility(new.aesthetics, base.aesthetics)
      pairings == pairing_warnings(new, base, current_outfit)
      pairing_status == IF pairings = <<>> THEN "ok" ELSE "warning"
      warnings == colors \o formality.warnings
                  \o (IF aesthetic[2] # None THEN <<aesthetic[2]>> ELSE <<>>)
                  \o pairings
  IN  [op |-> "validate_item",
       color_status |-> color_status,
       formality_status |-> formality.status,
       aesthetic_status |-> aesthetic[1],
       pairing_status |-> pairing_status,
       warnings |-> warnings]

---------------------------------------------------------------------------
(* services/compatability.py: whole-outfit validation.                     *)

\* The pair (is_complete, missing).  The source returns list(missing) of a
\* set of strings, whose order is that of the set's iteration; here the second
\* component is the set, and ListsOf gives the lists list(missing) can be.
check_outfit_composition(its) ==
  LET l1_categories == {its[i].category.l1 : i \in 1..Len(its)}
      required == IF "Full Body" \in l1_categories
                    THEN Range(REQUIRED_CATEGORIES_FULLBODY)
                    ELSE Range(REQUIRED_CATEGORIES_STANDARD)
      missing == required \ l1_categories
  IN  <<Cardinality(missing) = 0, missing>>

\* The lists without repetition of the elements of a set, in every order.
ListsOf(set) ==
  {l \in [1..Cardinality(set) -> set] : Range(l) = set}

\* Mutant of get_verdict: the score tested before `if not is_complete'.
get_verdict_score_first(score, is_complete, warnings) ==
  IF score >= 85 THEN "Excellent cohesive look!"
  ELSE IF ~is_complete THEN "Incomplete outfit - missing required items"
  ELSE IF score >= 70 THEN "Good outfit with minor style considerations"
  ELSE IF score >= 50 THEN "Decent outfit, but some elements may clash"
  ELSE "Consider revising - multiple style conflicts"

get_verdict(score, is_complete, warnings) ==
  IF ~is_complete THEN "Incomplete outfit - missing required items"
  ELSE IF score >= 85 THEN "Excellent cohesive look!"
  ELSE IF score >= 70 THEN "Good outfit with minor style considerations"
  ELSE IF score >= 50 THEN "Decent outfit, but some elements may clash"
  ELSE "Consider revising - multiple style conflicts"

\* Mutant of full_outfit: the base item left out of the outfit.
full_outfit_without_base(its, base) == its

\* full_outfit = [base_item] + items
full_outfit(its, base) == <<base>> \o its

\* Mutant of pair_warnings: the formality message of every pair that is not
\* "ok" is appended, the warning tier included.
pair_warnings_any_formality(item1, item2) ==
  LET color == check_color_compatibility(item1.color, item2.color)
      formality == check_formality_compatibility(item1.formality, item2.formality)
      pairing == check_category_pairing(item1, item2)
  IN  (IF ~color[1]
         THEN <<Msg("colors may clash", <<item1.category.l2, item2.category.l2>>, <<>>)>>
         ELSE <<>>)
      \o (IF formality[1] # "ok" THEN <<formality[2]>> ELSE <<>>)
      \o (IF pairing[1] = "warning" THEN <<pairing[2]>> ELSE <<>>)

\* The body of the pair loop of validate_outfit: the warnings one pair adds.
pair_warnings(item1, item2) ==
  LET color == check_color_compatibility(item1.color, item2.color)
      formality == check_formality_compatibility(item1.formality, item2.formality)
      pairing == check_category_pairing(item1, item2)
  IN  (IF ~color[1]
         THEN <<Msg("colors may clash", <<item1.category.l2, item2.category.l2>>, <<>>)>>
         ELSE <<>>)
      \o (IF formality[1] = "mismatch" THEN <<formality[2]>> ELSE <<>>)
      \o (IF pairing[1] = "warning" THEN <<pairing[2]>> ELSE <<>>)

\* The pair loop of validate_outfit over the pairs `pairs', in their order.
RECURSIVE all_pair_warnings(_, _)
all_pair_warnings(outfit, pairs) ==
  IF pairs = <<>> THEN <<>>
  ELSE pair_warnings(outfit[pairs[1][1]], outfit[pairs[1][2]])
       \o all_pair_warnings(outfit, Tail(pairs))

\* validate_outfit(items, base_item), given the list that list(missing) is.
validate_outfit(its, base, missing_categories) ==
  LET outfit == full_outfit(its, base)
      is_complete == check_outfit_composition(outfit)[1]
      size_warning ==
        IF Len(outfit) > MAX_OUTFIT_ITEMS
          THEN <<Msg("Outfit has items (max)", <<>>, <<Len(outfit), MAX_OUTFIT_ITEMS>>)>>
          ELSE <<>>
      missing_warning ==
        IF missing_categories # <<>>
          THEN <<Msg("Missing required categories", missing_categories, <<>>)>>
          ELSE <<>>
      cohesion_score == calculate_cohesion_score(its, base)
      warnings == size_warning \o missing_warning
                  \o all_pair_warnings(outfit, PairIndices(Len(outfit)))
      color_strip == [i \in 1..Len(outfit) |-> outfit[i].color.hex]
      verdict == get_verdict(cohesion_score, is_complete, warnings)
  IN  [op |-> "validate_outfit",
       is_complete |-> is_complete,
       cohesion_score |-> cohesion_score,
       verdict |-> verdict,
       warnings |-> warnings,
       color_strip |-> color_strip]

---------------------------------------------------------------------------
(* services/compatability.py: the recommendations generator.               *)

\* [x for x in seq if x in keep] and [x for x in seq if x not in keep]
Keep(seq, keep) == SelectSeq(seq, LAMBDA x : x \in keep)

Drop(seq, drop) == SelectSeq(seq, LAMBDA x : x \notin drop)

\* Mutant of categories_to_recommend: no special case for a Full Body base.
categories_to_recommend_no_full_body(base, filled) ==
  Drop(Drop(CATEGORY_L1, {base.category.l1}), Range(filled))

\* 1. The categories to recommend.
categories_to_recommend(base, filled) ==
  LET base_l1 == base.category.l1
      candidates == IF base_l1 = "Full Body"
                      THEN <<"Shoes", "Accessories", "Outerwear">>
                      ELSE Drop(CATEGORY_L1, {base_l1})
  IN  Drop(candidates, Range(filled))

FormalityRange(min, max) == [min |-> min, max |-> max]

\* Mutant of formality_range: base - 1 and base + 1 without the clamping.
formality_range_unclamped(base) ==
  FormalityRange(base.formality - Level(1), base.formality + Level(1))

\* The formality range: base +- 1, clamped to 1-5.
formality_range(base) ==
  LET base_formality == base.formality
      formality_min == Max(Level(1), base_formality - Level(1))
      formality_max == Min(Level(5), base_formality + Level(1))
  IN  FormalityRange(formality_min, formality_max)

formal_preferences == {"Dress Pants", "Oxfords", "Loafers", "Heels"}

casual_preferences == {"Jeans", "Sneakers", "Sandals", "T-Shirts", "Shorts"}

\* Mutant of suggested_l2: the preferred L2 values are kept and the others
\* dropped (a filter, as the source's comment has it, instead of a reordering).
suggested_l2_filtered(category_l1, base) ==
  LET taxonomy == Get(CATEGORY_TAXONOMY, category_l1, <<>>)
  IN  IF base.formality >= Level(4) THEN Keep(taxonomy, formal_preferences)
      ELSE IF base.formality <= Level(2) THEN Keep(taxonomy, casual_preferences)
      ELSE taxonomy

\* The suggested L2 values of a category, by the base formality.
suggested_l2(category_l1, base) ==
  LET taxonomy == Get(CATEGORY_TAXONOMY, category_l1, <<>>)
  IN  IF base.formality >= Level(4)
        THEN Keep(taxonomy, formal_preferences) \o Drop(taxonomy, formal_preferences)
      ELSE IF base.formality <= Level(2)
        THEN Keep(taxonomy, casual_preferences) \o Drop(taxonomy, casual_preferences)
      ELSE taxonomy

\* The example string: what is named, and in which colour.
example(category_l1, l2s, colors) ==
  IF l2s # <<>> /\ colors # <<>> THEN Msg("in", <<l2s[1], colors[1].name>>, <<>>)
  ELSE IF l2s # <<>> THEN Msg("in matching colors", <<l2s[1]>>, <<>>)
  ELSE IF colors # <<>> THEN Msg("in", <<category_l1, colors[1].name>>, <<>>)
  ELSE Msg("in matching colors", <<category_l1>>, <<>>)

\* 2. The recommendation of one category.
CategoryRecommendation(category_l1, base) ==
  LET colors == generate_recommended_colors(base.color, TRUE)
      l2s == suggested_l2(category_l1, base)
  IN  [category_l1 |-> category_l1,
       colors |-> colors,
       formality_range |-> formality_range(base),
       aesthetics |-> base.aesthetics,
       suggested_l2 |-> l2s,
       example |-> example(category_l1, l2s, colors)]

generate_category_recommendations(base, filled) ==
  LET categories == categories_to_recommend(base, filled)
  IN  [i \in 1..Len(categories) |-> CategoryRecommendation(categories[i], base)]

---------------------------------------------------------------------------
(* services/matching.py                                                    *)

\* int(c, 16) of one character.
HexValue(c) ==
  CASE c = "0" -> 0 [] c = "1" -> 1 [] c = "2" -> 2 [] c = "3" -> 3
    [] c = "4" -> 4 [] c = "5" -> 5 [] c = "6" -> 6 [] c = "7" -> 7
    [] c = "8" -> 8 [] c = "9" -> 9
    [] c \in {"a", "A"} -> 10 [] c \in {"b", "B"} -> 11 [] c \in {"c", "C"} -> 12
    [] c \in {"d", "D"} -> 13 [] c \in {"e", "E"} -> 14 [] c \in {"f", "F"} -> 15

\* str.lstrip('#')
RECURSIVE LStripHash(_)
LStripHash(hex_color) ==
  IF hex_color # <<>> /\ Head(hex_color) = "#" THEN LStripHash(Tail(hex_color))
  ELSE hex_color

hex_to_rgb(hex_color) ==
  LET digits == LStripHash(hex_color)
  IN  [k \in 1..3 |-> 16 * HexValue(digits[2 * k - 1]) + HexValue(digits[2 * k])]

\* The distance of two colours is the square root of the weighted sum; the
\* sum is what is kept here, the root being taken only in comparisons.
color_distance(hex1, hex2) ==
  LET rgb1 == hex_to_rgb(hex1)
      rgb2 == hex_to_rgb(hex2)
  IN  2 * (rgb1[1] - rgb2[1]) * (rgb1[1] - rgb2[1])
      + 4 * (rgb1[2] - rgb2[2]) * (rgb1[2] - rgb2[2])
      + 3 * (rgb1[3] - rgb2[3]) * (rgb1[3] - rgb2[3])

\* A score, in twelfths of a point: (whole - sqrt(root)) / 12.  A colour score
\* 50 - sqrt(d2)/3 is Score(600, 16 * d2); a level of formality is 4 quarters
\* and costs 15 points, 45 twelfths a quarter.
Score(whole, root) == [whole |-> whole, root |-> root]

Points(n) == Score(12 * n, 0)

\* a >= b for two scores: sqrt(a.root) <= (a.whole - b.whole) + sqrt(b.root),
\* decided by squaring.
ScoreGE(a, b) ==
  LET k == a.whole - b.whole
      ra == a.root
      rb == b.root
  IN  IF k >= 0
        THEN \/ ra - k * k - rb <= 0
             \/ (ra - k * k - rb) * (ra - k * k - rb) <= 4 * k * k * rb
        ELSE /\ rb - ra - k * k >= 0
             /\ 4 * k * k * ra <= (rb - ra - k * k) * (rb - ra - k * k)

\* best_color_distance after the loop over recommended_colors[1..n]: <<>> is
\* float('inf'), <<d>> the finite distance whose square is d.
RECURSIVE best_color_distance(_, _, _)
best_color_distance(item, recommended_colors, n) ==
  IF n = 0 THEN <<>>
  ELSE LET best == best_color_distance(item, recommended_colors, n - 1)
           dist == color_distance(item.color.hex, recommended_colors[n].hex)
       IN  IF best = <<>> THEN <<dist>> ELSE <<Min(best[1], dist)>>

\* max(0, 50 - best / 3): 0 from a distance of 150 on.
color_score(best) ==
  IF best = <<>> THEN Score(0, 0)
  ELSE IF best[1] >= 150 * 150 THEN Score(0, 0)
  ELSE Score(600, 16 * best[1])

\* Mutant of formality_score: 10 points lost per level outside the range.
formality_score_ten_per_level(item, the_range) ==
  IF the_range.min <= item.formality /\ item.formality <= the_range.max
    THEN 600
  ELSE LET diff == IF item.formality < the_range.min
                     THEN the_range.min - item.formality
                     ELSE item.formality - the_range.max
       IN  Max(0, 600 - diff * 30)

\* The formality part of the score, in twelfths of a point.
formality_score(item, the_range) ==
  IF the_range.min <= item.formality /\ item.formality <= the_range.max
    THEN 600
  ELSE LET diff == IF item.formality < the_range.min
                     THEN the_range.min - item.formality
                     ELSE item.formality - the_range.max
       IN  Max(0, 600 - diff * 45)

score_item_match(item, recommended_colors, the_range) ==
  LET color == color_score(best_color_distance(item, recommended_colors,
                                                Len(recommended_colors)))
  IN  Score(color.whole + formality_score(item, the_range), color.root)

\* Mutant of sort_by_score: an item goes before the items of equal score.
RECURSIVE sort_by_score_unstable(_)
sort_by_score_unstable(scored_items) ==
  IF scored_items = <<>> THEN <<>>
  ELSE LET n == Len(scored_items)
           last == scored_items[n]
           sorted == sort_by_score_unstable(SubSeq(scored_items, 1, n - 1))
       IN  SelectSeq(sorted, LAMBDA e : ~ScoreGE(last[2], e[2]))
             \o <<last>>
             \o SelectSeq(sorted, LAMBDA e : ScoreGE(last[2], e[2]))

\* list.sort(key=score, reverse=True): descending, and stable: each item goes
\* behind the items of an equal or higher score that came before it.
RECURSIVE sort_by_score(_)
sort_by_score(scored_items) ==
  IF scored_items = <<>> THEN <<>>
  ELSE LET n == Len(scored_items)
           last == scored_items[n]
           sorted == sort_by_score(SubSeq(scored_items, 1, n - 1))
       IN  SelectSeq(sorted, LAMBDA e : ScoreGE(e[2], last[2]))
             \o <<last>>
             \o SelectSeq(sorted, LAMBDA e : ~ScoreGE(e[2], last[2]))

\* formality_range is the_range here, the name being taken by the operator above.
filter_and_rank_items(its, category_l1, recommended_colors, the_range, limit, min_score) ==
  LET category_items == SelectSeq(its, LAMBDA item : item.category.l1 = category_l1)
      scored(item) == score_item_match(item, recommended_colors, the_range)
      kept == SelectSeq(category_items, LAMBDA item : ScoreGE(scored(item), min_score))
      scored_items == sort_by_score([i \in 1..Len(kept) |-> <<kept[i], scored(kept[i])>>])
      top == SubSeq(scored_items, 1, Min(limit, Len(scored_items)))
  IN  [i \in 1..Len(top) |-> top[i][1]]

---------------------------------------------------------------------------
(* The values the caller supplies.  Colours come from the client and are   *)
(* trusted as given; the hue decides the harmony, the name the neutrality. *)

Navy == Color(<<"#", "0", "B", "1", "C", "2", "D">>, HSL(210, 61, 11), "navy", TRUE)

Red == Color(<<"#", "F", "F", "0", "0", "0", "0">>, HSL(0, 100, 50), "red", FALSE)

\* 90 degrees from Red and from Teal: compatible with neither.
Green == Color(<<"#", "7", "F", "F", "F", "0", "0">>, HSL(90, 100, 50), "green", FALSE)

\* Complementary to Red.
Teal == Color(<<"#", "0", "0", "F", "F", "F", "F">>, HSL(180, 100, 50), "teal", FALSE)

\* The outfit members of the cohesion runs: every colour relation, formality
\* gaps from 0.25 to 4.0 levels, tag lists with 0, 1 and 2 common tags.
CohesionItems ==
  { ClothingItemBase(Navy, Category("Tops", "T-Shirts"), Level(3), <<>>),
    ClothingItemBase(Red, Category("Bottoms", "Jeans"), Level(1), <<"Minimalist">>),
    ClothingItemBase(Green, Category("Shoes", "Sneakers"), Level(5), <<"Classic">>),
    ClothingItemBase(Red, Category("Outerwear", "Jackets"), Level(3),
                     <<"Minimalist", "Classic">>),
    ClothingItemBase(Teal, Category("Accessories", "Belts"), 5,
                     <<"Classic", "Minimalist">>),
    ClothingItemBase(Green, Category("Bottoms", "Chinos"), Level(3), <<>>),
    ClothingItemBase(Navy, Category("Shoes", "Loafers"), 5, <<"Classic">>),
    ClothingItemBase(Red, Category("Tops", "Polos"), Level(5), <<>>) }

\* The longest list of items the cohesion runs pass (the base item comes on top).
MaxItems == 3

NoResult == [op |-> "none"]

\* No list object is tracked: the runs that pass values only.
NoHeap == <<>>

\* No new item: validate_item is not being called.
NoItem == [none |-> TRUE]

---------------------------------------------------------------------------
(* The caller of calculate_cohesion_score.                                 *)

InitCohesion ==
  /\ base_item \in CohesionItems
  /\ items = <<>>
  /\ new_item = NoItem
  /\ filled_categories = <<>>
  /\ result = NoResult
  /\ heap = NoHeap

AddCohesionItem ==
  \E x \in CohesionItems :
    /\ Len(items) < MaxItems
    /\ items' = Append(items, x)
    /\ result' = NoResult
    /\ UNCHANGED <<base_item, new_item, filled_categories, heap>>

CallCohesionScore ==
  /\ result' = [op |-> "calculate_cohesion_score",
                score |-> calculate_cohesion_score(items, base_item)]
  /\ UNCHANGED <<base_item, items, new_item, filled_categories, heap>>

NextCohesion == AddCohesionItem \/ CallCohesionScore

SpecCohesion == InitCohesion /\ [][NextCohesion]_vars

---------------------------------------------------------------------------
(* Claims about calculate_cohesion_score, checked under SpecCohesion.      *)

Scored == result.op = "calculate_cohesion_score"

FullOutfit == <<base_item>> \o items

\* The unordered pairs of members of the outfit `outfit'.
MemberPairs(outfit) ==
  {p \in (1..Len(outfit)) \X (1..Len(outfit)) : p[1] < p[2]}

ClashingPairs(outfit) ==
  {p \in MemberPairs(outfit) :
     ~check_color_compatibility(outfit[p[1]].color, outfit[p[2]].color)[1]}

MaxFormality(outfit) ==
  CHOOSE f \in {outfit[i].formality : i \in 1..Len(outfit)} :
    \A i \in 1..Len(outfit) : outfit[i].formality <= f

MinFormality(outfit) ==
  CHOOSE f \in {outfit[i].formality : i \in 1..Len(outfit)} :
    \A i \in 1..Len(outfit) : f <= outfit[i].formality

\* C1: calculate_cohesion_score returns an integer s with 0 <= s <= 100, for
\* every base item and every list of items.
C1_ScoreInRange == Scored => result.score \in 0..100

\* C1 witness: a scored outfit of two members that hits the lower end, 0.
C1_Witness == Scored /\ Len(items) = 1 /\ result.score = 0

\* floor(100 - 30*k/C - min(10*(maxF - minF), 40) - A) over the outfit, with
\* the formalities in quarter levels: every term is brought to the
\* denominator 4*C.
ExpectedScore(outfit) ==
  LET C == Cardinality(MemberPairs(outfit))
      k == Cardinality(ClashingPairs(outfit))
      gap == MaxFormality(outfit) - MinFormality(outfit)
      A == aesthetic_penalty(outfit)
  IN  (400 * C - 120 * k - C * Min(10 * gap, 160) - 4 * C * A) \div (4 * C)

\* C2: the score is exactly 100 when items is empty, and otherwise
\* floor(100 - 30*k/C - min(10*(maxF - minF), 40) - A) with C the number of
\* unordered pairs of the full outfit, k the number of colour-incompatible
\* pairs, maxF and minF the extreme formalities and A the aesthetic penalty.
C2_ScoreFormula ==
  Scored =>
    /\ aesthetic_penalty(FullOutfit) \in {0, 10, 30}
    /\ IF items = <<>> THEN result.score = 100
       ELSE result.score = ExpectedScore(FullOutfit)

\* C2 witness: three members, one clashing pair out of three, a formality gap
\* of 1.75 levels and one common tag: 100 - 10 - 17.5 - 10 = 62.5, floored.
C2_Witness ==
  /\ Scored
  /\ Len(items) = 2
  /\ Cardinality(ClashingPairs(FullOutfit)) = 1
  /\ MaxFormality(FullOutfit) - MinFormality(FullOutfit) = 7
  /\ aesthetic_penalty(FullOutfit) = 10
  /\ result.score = 62

AllColorCompatible(outfit) == ClashingPairs(outfit) = {}

Front(s) == SubSeq(s, 1, Len(s) - 1)

\* The last item of `items' clashes with a member of an outfit that was
\* colour-compatible throughout before it was added.
ClashingItemAdded ==
  /\ items # <<>>
  /\ AllColorCompatible(<<base_item>> \o Front(items))
  /\ ~AllColorCompatible(FullOutfit)

\* C3: adding an item that is colour-incompatible with a member of an outfit
\* whose members are pairwise colour-compatible never raises the score,
\* whatever the item's formality and tags.
C3_AddingClashNeverRaises ==
  (Scored /\ ClashingItemAdded) =>
    result.score <= calculate_cohesion_score(Front(items), base_item)

\* C3 witness: a clashing item added to a compatible outfit of two or more
\* members lowered the score.
C3_Witness ==
  /\ Scored
  /\ ClashingItemAdded
  /\ Len(items) >= 2
  /\ result.score < calculate_cohesion_score(Front(items), base_item)

\* The members of `outfit' that carry at least one tag.
TaggedMembers(outfit) == {i \in 1..Len(outfit) : outfit[i].aesthetics # <<>>}

\* The tags that every tagged member of `outfit' carries.
CommonTags(outfit) ==
  {t \in UNION {Range(outfit[i].aesthetics) : i \in 1..Len(outfit)} :
     \A i \in TaggedMembers(outfit) : t \in Range(outfit[i].aesthetics)}

ExpectedAestheticPenalty(outfit) ==
  IF TaggedMembers(outfit) = {} THEN 0
  ELSE IF CommonTags(outfit) = {} THEN 30
  ELSE IF Cardinality(CommonTags(outfit)) = 1 THEN 10
  ELSE 0

\* `outfit' without its members that carry no tag.
WithoutUntagged(outfit) == SelectSeq(outfit, LAMBDA it : it.aesthetics # <<>>)

\* C22: the aesthetic penalty of calculate_cohesion_score comes from the
\* intersection of the tag sets of the members with at least one tag: 30 when
\* it is empty, 10 when it holds one tag, 0 when it holds two or more, and 0
\* when no member has a tag; a member without tags never changes the penalty,
\* and the score returned carries exactly that penalty.
C22_AestheticPenalty ==
  (Scored /\ items # <<>>) =>
    LET C == Cardinality(MemberPairs(FullOutfit))
        k == Cardinality(ClashingPairs(FullOutfit))
        gap == MaxFormality(FullOutfit) - MinFormality(FullOutfit)
        A == ExpectedAestheticPenalty(FullOutfit)
    IN  /\ aesthetic_penalty(FullOutfit) = A
        /\ aesthetic_penalty(FullOutfit) = aesthetic_penalty(WithoutUntagged(FullOutfit))
        /\ result.score = (400 * C - 120 * k - C * Min(10 * gap, 160) - 4 * C * A) \div (4 * C)

\* C22 witness: a scored outfit with a member without tags next to two tagged
\* members that share exactly one tag, penalty 10.
C22_Witness ==
  /\ Scored
  /\ Len(items) = 2
  /\ Cardinality(TaggedMembers(FullOutfit)) = 2
  /\ Cardinality(CommonTags(FullOutfit)) = 1
  /\ aesthetic_penalty(FullOutfit) = 10

\* C22 witness: tagged members without a common tag next to a member without
\* tags, penalty 30; and an outfit without any tag, penalty 0.
C22_WitnessNoCommon ==
  /\ Scored
  /\ Cardinality(TaggedMembers(FullOutfit)) = 2
  /\ Len(items) = 2
  /\ CommonTags(FullOutfit) = {}
  /\ aesthetic_penalty(FullOutfit) = 30

---------------------------------------------------------------------------
(* The caller of validate_outfit.                                          *)

\* The outfit members of the validation runs: every L1 the composition rules
\* name, shoes with and without an allowed partner, formality gaps on both
\* sides of the 2-level threshold, clashing and neutral colours.
OutfitItems ==
  { ClothingItemBase(Navy, Category("Tops", "T-Shirts"), Level(3), <<>>),
    ClothingItemBase(Red, Category("Bottoms", "Jeans"), Level(1), <<"Minimalist">>),
    ClothingItemBase(Green, Category("Bottoms", "Joggers"), 11, <<"Classic">>),
    ClothingItemBase(Navy, Category("Shoes", "Oxfords"), Level(5), <<"Classic">>),
    ClothingItemBase(Red, Category("Shoes", "Sneakers"), Level(3), <<"Minimalist">>),
    ClothingItemBase(Green, Category("Full Body", "Dresses"), Level(5), <<>>),
    ClothingItemBase(Teal, Category("Accessories", "Belts"), Level(1), <<>>) }

\* The longest list of freely chosen items of the validation runs; longer
\* lists repeat their last item, up to MAX_OUTFIT_ITEMS items.
MaxOutfit == 3

InitOutfit ==
  /\ base_item \in OutfitItems
  /\ items = <<>>
  /\ new_item = NoItem
  /\ filled_categories = <<>>
  /\ result = NoResult
  /\ heap = NoHeap

AddOutfitItem ==
  \E x \in OutfitItems :
    /\ Len(items) < MaxOutfit
    /\ items' = Append(items, x)
    /\ result' = NoResult
    /\ UNCHANGED <<base_item, new_item, filled_categories, heap>>

RepeatLastItem ==
  /\ Len(items) >= MaxOutfit
  /\ Len(items) < MAX_OUTFIT_ITEMS
  /\ items' = Append(items, items[Len(items)])
  /\ result' = NoResult
  /\ UNCHANGED <<base_item, new_item, filled_categories, heap>>

CallValidateOutfit ==
  \E missing_categories \in ListsOf(check_outfit_composition(full_outfit(items, base_item))[2]) :
    /\ result' = validate_outfit(items, base_item, missing_categories)
    /\ UNCHANGED <<base_item, items, new_item, filled_categories, heap>>

NextOutfit == AddOutfitItem \/ RepeatLastItem \/ CallValidateOutfit

SpecOutfit == InitOutfit /\ [][NextOutfit]_vars

---------------------------------------------------------------------------
(* Claims about validate_outfit, checked under SpecOutfit.                 *)

Validated == result.op = "validate_outfit"

\* The messages of one kind in a list of warnings.
OfKind(warnings, kind) == SelectSeq(warnings, LAMBDA m : m.kind = kind)

\* The L1 categories of the members of the full outfit, base item included.
PresentL1 == {FullOutfit[i].category.l1 : i \in 1..Len(FullOutfit)}

RequiredL1 ==
  IF "Full Body" \in PresentL1 THEN {"Full Body", "Shoes"}
  ELSE {"Tops", "Bottoms", "Shoes"}

\* The missing lists that validate_outfit reported (one, or none).
ReportedMissing == OfKind(result.warnings, "Missing required categories")

\* C4: validate_outfit computes completeness over [base_item] + items: the
\* required set is {Full Body, Shoes} if a member is Full Body and
\* {Tops, Bottoms, Shoes} otherwise, the missing list is exactly the required
\* categories that no member has, and is_complete holds iff it is empty.
C4_Completeness ==
  Validated =>
    /\ result.is_complete = (RequiredL1 \ PresentL1 = {})
    /\ IF RequiredL1 \ PresentL1 = {}
         THEN ReportedMissing = <<>>
         ELSE /\ Len(ReportedMissing) = 1
              /\ Range(ReportedMissing[1].strs) = RequiredL1 \ PresentL1
              /\ Len(ReportedMissing[1].strs) = Cardinality(RequiredL1 \ PresentL1)

\* C4 witness: the base item alone supplies a required category (no item of
\* the list has its L1), and the outfit is complete.
C4_Witness ==
  /\ Validated
  /\ result.is_complete
  /\ base_item.category.l1 \in RequiredL1
  /\ \A i \in 1..Len(items) : items[i].category.l1 # base_item.category.l1

\* C4 second case, reached as well: a Full Body member, Shoes missing.
C4_WitnessFullBody ==
  /\ Validated
  /\ "Full Body" \in PresentL1
  /\ ~result.is_complete
  /\ Len(ReportedMissing) = 1
  /\ ReportedMissing[1].strs = <<"Shoes">>

MismatchPairs(outfit) ==
  {p \in MemberPairs(outfit) :
     check_formality_compatibility(outfit[p[1]].formality, outfit[p[2]].formality)[1]
       = "mismatch"}

GapPairs(outfit) ==
  {p \in MemberPairs(outfit) :
     check_formality_compatibility(outfit[p[1]].formality, outfit[p[2]].formality)[1]
       = "warning"}

BadPairings(outfit) ==
  {p \in MemberPairs(outfit) :
     check_category_pairing(outfit[p[1]], outfit[p[2]])[1] = "warning"}

\* C5: the warnings of validate_outfit are exactly: one size warning iff
\* 1 + len(items) > 6; one missing-categories warning iff the outfit is
\* incomplete; and for every unordered pair of members one warning if the
\* pair's colours clash, one if its formality status is "mismatch" (none for
\* the status "warning"), one if check_category_pairing warns.
C5_OutfitWarnings ==
  Validated =>
    LET w == result.warnings
        size == Len(OfKind(w, "Outfit has items (max)"))
        missing == Len(OfKind(w, "Missing required categories"))
        clash == Len(OfKind(w, "colors may clash"))
        mismatch == Len(OfKind(w, "Formality mismatch"))
        gap == Len(OfKind(w, "Formality gap is 2 levels"))
        pairing == Len(OfKind(w, "typically don't pair with"))
    IN  /\ size = (IF 1 + Len(items) > 6 THEN 1 ELSE 0)
        /\ missing = (IF result.is_complete THEN 0 ELSE 1)
        /\ clash = Cardinality(ClashingPairs(FullOutfit))
        /\ mismatch = Cardinality(MismatchPairs(FullOutfit))
        /\ gap = 0
        /\ pairing = Cardinality(BadPairings(FullOutfit))
        /\ Len(w) = size + missing + clash + mismatch + pairing

\* C5 witness: seven members, an incomplete outfit, and pairs of every sort:
\* clashing, formality mismatch, formality warning tier, pairing warning.
C5_Witness ==
  /\ Validated
  /\ Len(items) = MAX_OUTFIT_ITEMS
  /\ ~result.is_complete
  /\ ClashingPairs(FullOutfit) # {}
  /\ MismatchPairs(FullOutfit) # {}
  /\ GapPairs(FullOutfit) # {}
  /\ BadPairings(FullOutfit) # {}

---------------------------------------------------------------------------
(* The caller of validate_item: an outfit draft, and a candidate item.     *)

\* The longest outfit draft a candidate item is validated against.
MaxDraft == 2

InitItem ==
  /\ base_item \in OutfitItems
  /\ items = <<>>
  /\ new_item = NoItem
  /\ filled_categories = <<>>
  /\ result = NoResult
  /\ heap = NoHeap

AddDraftItem ==
  \E x \in OutfitItems :
    /\ Len(items) < MaxDraft
    /\ items' = Append(items, x)
    /\ new_item' = NoItem
    /\ result' = NoResult
    /\ UNCHANGED <<base_item, filled_categories, heap>>

CallValidateItem ==
  \E x \in OutfitItems :
    /\ new_item' = x
    /\ result' = validate_item(x, base_item, items)
    /\ UNCHANGED <<base_item, items, filled_categories, heap>>

NextItem == AddDraftItem \/ CallValidateItem

SpecItem == InitItem /\ [][NextItem]_vars

---------------------------------------------------------------------------
(* Claims about validate_item, checked under SpecItem.                     *)

ItemValidated == result.op = "validate_item"

\* The items new_item is compared with: base_item, then the outfit draft.
Compared == <<base_item>> \o items

FormalityStatus(other) ==
  check_formality_compatibility(new_item.formality, other.formality)[1]

ColorClash(other) == ~check_color_compatibility(new_item.color, other.color)[1]

PairingWarned(other) == check_category_pairing(new_item, other)[1] = "warning"

\* C6: validate_item aggregates per dimension over the comparisons of new_item
\* with base_item and every outfit item: color_status is "warning" iff some
\* comparison is colour-incompatible; formality_status is the worst pairwise
\* status under ok < warning < mismatch, in whatever order the items come;
\* pairing_status is "warning" iff some comparison gets a pairing warning;
\* aesthetic_status is decided by new_item and base_item alone: "cohesive" iff
\* one of the two tag lists is empty or they share a tag.
C6_StatusAggregation ==
  ItemValidated =>
    /\ result.color_status =
         (IF \E i \in 1..Len(Compared) : ColorClash(Compared[i]) THEN "warning" ELSE "ok")
    /\ result.formality_status =
         (IF \E i \in 1..Len(Compared) : FormalityStatus(Compared[i]) = "mismatch"
            THEN "mismatch"
          ELSE IF \E i \in 1..Len(Compared) : FormalityStatus(Compared[i]) = "warning"
            THEN "warning"
          ELSE "ok")
    /\ result.pairing_status =
         (IF \E i \in 1..Len(Compared) : PairingWarned(Compared[i]) THEN "warning" ELSE "ok")
    /\ result.aesthetic_status =
         (IF \/ new_item.aesthetics = <<>>
             \/ base_item.aesthetics = <<>>
             \/ Range(new_item.aesthetics) \cap Range(base_item.aesthetics) # {}
            THEN "cohesive" ELSE "warning")

\* C6 witness: the comparison with base_item is a formality mismatch and a
\* later one only a warning; the colours clash with an outfit item but not
\* with base_item; the tags agree with base_item and with no outfit item.
C6_Witness ==
  /\ ItemValidated
  /\ FormalityStatus(base_item) = "mismatch"
  /\ \E i \in 1..Len(items) : FormalityStatus(items[i]) = "warning"
  /\ ~ColorClash(base_item)
  /\ \E i \in 1..Len(items) : ColorClash(items[i])
  /\ result.aesthetic_status = "cohesive"
  /\ \E i \in 1..Len(items) :
       check_aesthetic_compatibility(new_item.aesthetics, items[i].aesthetics)[1] = "warning"

\* The comparisons, in order, that a predicate on the compared item selects.
Selected(P(_)) == SelectSeq(Compared, P)

\* C7 (as claimed): warnings holds the message of every pairwise check that
\* did not come out ok, one message per check: every colour incompatibility,
\* every formality comparison with status warning or mismatch, the aesthetic
\* warning, every pairing warning, in the order colour, formality, aesthetic,
\* pairing.
C7_EveryMessageReported ==
  ItemValidated =>
    LET clashes == Selected(ColorClash)
        gaps == Selected(LAMBDA other : FormalityStatus(other) # "ok")
        pairs == Selected(PairingWarned)
        aesthetic == check_aesthetic_compatibility(new_item.aesthetics, base_item.aesthetics)
        w == result.warnings
        nc == Len(clashes)
        nf == Len(gaps)
        na == IF aesthetic[1] = "warning" THEN 1 ELSE 0
    IN  /\ Len(w) = nc + nf + na + Len(pairs)
        /\ \A i \in 1..nc :
             w[i].kind \in {"Color may clash with base item", "Color may clash with"}
        /\ \A i \in 1..nf :
             w[nc + i] = check_formality_compatibility(new_item.formality,
                                                       gaps[i].formality)[2]
        /\ na = 1 => w[nc + nf + 1] = aesthetic[2]
        /\ \A i \in 1..Len(pairs) :
             w[nc + nf + na + i] = check_category_pairing(new_item, pairs[i])[2]

\* Some message of one of the kinds `kinds' is in the warnings returned.
Backed(kinds) == \E i \in 1..Len(result.warnings) : result.warnings[i].kind \in kinds

\* C28: the statuses and the warnings of validate_item agree: warnings is
\* empty iff color_status = "ok", formality_status = "ok", aesthetic_status =
\* "cohesive" and pairing_status = "ok", and each status that is not
\* ok/cohesive is backed by at least one message of its dimension.
C28_StatusesAndWarningsAgree ==
  ItemValidated =>
    /\ (result.warnings = <<>>) <=>
         /\ result.color_status = "ok"
         /\ result.formality_status = "ok"
         /\ result.aesthetic_status = "cohesive"
         /\ result.pairing_status = "ok"
    /\ result.color_status # "ok" =>
         Backed({"Color may clash with base item", "Color may clash with"})
    /\ result.formality_status = "warning" => Backed({"Formality gap is 2 levels"})
    /\ result.formality_status = "mismatch" => Backed({"Formality mismatch"})
    /\ result.aesthetic_status # "cohesive" => Backed({"No shared aesthetic tags"})
    /\ result.pairing_status # "ok" => Backed({"typically don't pair with"})

\* C28 witness: the only status that is not ok is formality_status, a
\* warning, and the warnings hold its message alone.
C28_Witness ==
  /\ ItemValidated
  /\ result.color_status = "ok"
  /\ result.formality_status = "warning"
  /\ result.aesthetic_status = "cohesive"
  /\ result.pairing_status = "ok"
  /\ Len(result.warnings) = 1
  /\ result.warnings[1].kind = "Formality gap is 2 levels"

\* C28 second case, reached as well: every status is ok and no warning is
\* returned, with two items in the draft.
C28_WitnessAllOk ==
  /\ ItemValidated
  /\ Len(items) = 2
  /\ result.color_status = "ok"
  /\ result.formality_status = "ok"
  /\ result.aesthetic_status = "cohesive"
  /\ result.pairing_status = "ok"
  /\ result.warnings = <<>>

---------------------------------------------------------------------------
(* The caller of generate_category_recommendations.                        *)

\* The L1 of the base items: the six of the taxonomy, and one outside it.
BaseL1 == Range(CATEGORY_L1) \cup {"Swimwear"}

\* The base items of the recommendation runs: every L1, every formality from
\* 1.0 to 5.0 in quarter levels, a neutral and a chromatic colour.
RecommendationBases ==
  { ClothingItemBase(color, Category(l1, Get(CATEGORY_TAXONOMY, l1, <<"Trunks">>)[1]),
                     formality, <<"Classic">>) :
      color \in {Navy, Red}, l1 \in BaseL1, formality \in Level(1)..Level(5) }

\* The longest list of filled categories.
MaxFilled == 2

InitRecommendations ==
  /\ base_item \in RecommendationBases
  /\ items = <<>>
  /\ new_item = NoItem
  /\ filled_categories = <<>>
  /\ result = NoResult
  /\ heap = NoHeap

FillCategory ==
  \E category \in Range(CATEGORY_L1) :
    /\ Len(filled_categories) < MaxFilled
    /\ filled_categories' = Append(filled_categories, category)
    /\ result' = NoResult
    /\ UNCHANGED <<base_item, items, new_item, heap>>

CallRecommendations ==
  /\ result' = [op |-> "generate_category_recommendations",
                recommendations |->
                  generate_category_recommendations(base_item, filled_categories)]
  /\ UNCHANGED <<base_item, items, new_item, filled_categories, heap>>

NextRecommendations == FillCategory \/ CallRecommendations

SpecRecommendations == InitRecommendations /\ [][NextRecommendations]_vars

---------------------------------------------------------------------------
(* Claims about generate_category_recommendations, checked under           *)
(* SpecRecommendations.                                                    *)

Recommended == result.op = "generate_category_recommendations"

\* The categories of the recommendations returned, in order.
RecommendedL1 ==
  [i \in 1..Len(result.recommendations) |-> result.recommendations[i].category_l1]

TargetL1 ==
  (IF base_item.category.l1 = "Full Body"
     THEN {"Shoes", "Accessories", "Outerwear"}
     ELSE {"Tops", "Bottoms", "Shoes", "Accessories", "Outerwear", "Full Body"}
            \ {base_item.category.l1})
  \ Range(filled_categories)

\* C8: generate_category_recommendations returns exactly one recommendation
\* for each category of the target set and nothing else; the target set is
\* {Shoes, Accessories, Outerwear} for a Full Body base and otherwise the six
\* L1 categories except the base's own, minus the filled categories.  The
\* result never holds the base's L1, a filled category, or a category twice.
C8_RecommendedCategories ==
  Recommended =>
    /\ Range(RecommendedL1) = TargetL1
    /\ Len(RecommendedL1) = Cardinality(TargetL1)
    /\ base_item.category.l1 \notin Range(RecommendedL1)
    /\ Range(RecommendedL1) \cap Range(filled_categories) = {}
    /\ \A i, j \in 1..Len(RecommendedL1) : RecommendedL1[i] = RecommendedL1[j] => i = j

\* C8 witness: a Full Body base with Shoes and Tops filled: Accessories and
\* Outerwear are recommended.
C8_Witness ==
  /\ Recommended
  /\ base_item.category.l1 = "Full Body"
  /\ Range(filled_categories) = {"Shoes", "Tops"}
  /\ RecommendedL1 = <<"Accessories", "Outerwear">>

\* C9: every recommendation has formality_range.min = max(1, b - 1) and
\* formality_range.max = min(5, b + 1) for the base formality b, hence
\* 1 <= min <= b <= max <= 5 (formalities in quarter levels).
C9_FormalityRange ==
  Recommended =>
    \A i \in 1..Len(result.recommendations) :
      LET range == result.recommendations[i].formality_range
          b == base_item.formality
      IN  /\ range.min = (IF b - 4 < 4 THEN 4 ELSE b - 4)
          /\ range.max = (IF b + 4 > 20 THEN 20 ELSE b + 4)
          /\ 4 <= range.min /\ range.min <= b /\ b <= range.max /\ range.max <= 20

\* C9 witness: a base formality of 1.5, whose range [1.0, 2.5] is clamped
\* below, with at least one recommendation returned.
C9_Witness ==
  /\ Recommended
  /\ base_item.formality = 6
  /\ result.recommendations # <<>>
  /\ result.recommendations[1].formality_range = [min |-> 4, max |-> 10]

\* The position of an L2 value in its category's taxonomy list.
TaxonomyPosition(category_l1, l2) ==
  CHOOSE k \in 1..Len(CATEGORY_TAXONOMY[category_l1]) : CATEGORY_TAXONOMY[category_l1][k] = l2

\* The L2 values that go to the front for the base formality b.
FrontGroup(b) ==
  IF b >= 16 THEN {"Dress Pants", "Oxfords", "Loafers", "Heels"}
  ELSE IF b <= 8 THEN {"Jeans", "Sneakers", "Sandals", "T-Shirts", "Shorts"}
  ELSE {}

C10_WitnessCasual ==
  /\ Recommended
  /\ base_item.formality = 8
  /\ \E r \in 1..Len(result.recommendations) :
       /\ result.recommendations[r].category_l1 = "Bottoms"
       /\ result.recommendations[r].suggested_l2
            = <<"Jeans", "Shorts", "Chinos", "Dress Pants", "Joggers", "Skirts">>

---------------------------------------------------------------------------
(* The callers of check_color_compatibility and                            *)
(* generate_recommended_colors.                                            *)

\* The hues of the chromatic colours: distances of 30, 31, 104, 105, 135,
\* 136, 164 and 165 degrees occur between them, some across 0.
ColorHues == {0, 1, 15, 30, 31, 105, 120, 135, 137, 165, 180, 195, 225, 330, 345}

Black == Color(<<"#", "0", "0", "0", "0", "0", "0">>, HSL(0, 0, 0), "BLACK", TRUE)

Grey == Color(<<"#", "8", "0", "8", "0", "8", "0">>, HSL(0, 0, 50), "grey", TRUE)

\* Two colours whose names are not neutral names: one without saturation, one
\* dark and 30 degrees from navy's hues.
Silver == Color(<<"#", "C", "0", "C", "0", "C", "0">>, HSL(0, 0, 75), "Silver", FALSE)

DarkTeal == Color(<<"#", "1", "3", "3", "9", "3", "9">>, HSL(180, 50, 15), "Dark Teal", FALSE)

Colors ==
  {hsl_to_color(HSL(h, 100, 50)) : h \in ColorHues}
    \cup {Navy, Black, Grey, Silver, DarkTeal}

\* An item of the given colour.
ColorItem(color) == ClothingItemBase(color, Category("Tops", "T-Shirts"), Level(3), <<>>)

InitColor ==
  /\ base_item \in {ColorItem(color) : color \in Colors}
  /\ new_item \in {ColorItem(color) : color \in Colors}
  /\ items = <<>>
  /\ filled_categories = <<>>
  /\ result = NoResult
  /\ heap = NoHeap

CallCheckColorCompatibility ==
  /\ result' = [op |-> "check_color_compatibility",
                value |-> check_color_compatibility(base_item.color, new_item.color)]
  /\ UNCHANGED <<base_item, items, new_item, filled_categories, heap>>

CallGenerateRecommendedColors ==
  \E include_neutrals \in BOOLEAN :
    /\ result' = [op |-> "generate_recommended_colors",
                  include_neutrals |-> include_neutrals,
                  colors |-> generate_recommended_colors(base_item.color, include_neutrals)]
    /\ UNCHANGED <<base_item, items, new_item, filled_categories, heap>>

NextColor == CallCheckColorCompatibility \/ CallGenerateRecommendedColors

SpecColor == InitColor /\ [][NextColor]_vars

---------------------------------------------------------------------------
(* Claims about the colour functions, checked under SpecColor.             *)

ColorsRecommended == result.op = "generate_recommended_colors"

\* The names of the neutral-name set.
NeutralNames ==
  {"black", "white", "gray", "grey", "navy", "beige", "cream", "tan", "khaki"}

\* The base colour's name is a neutral name, whatever its case.
BaseIsNeutral == Lower(base_item.color.name) \in NeutralNames

\* The recommended colours that carry the given harmony type, in order.
Tagged(harmony_type) ==
  SelectSeq(result.colors, LAMBDA c : c.harmony_type = harmony_type)

\* The hex code of the base colour's hue moved by the given number of degrees.
HexOfHue(degrees) ==
  hsl_to_hex(HSL((base_item.color.hsl.h + degrees) % 360,
                 base_item.color.hsl.s, base_item.color.hsl.l))

\* C11 (as claimed): for a base colour whose name is not a neutral name,
\* generate_recommended_colors returns, for either value of include_neutrals,
\* exactly two entries tagged 'analogous', the hues base+30 and base-30, and
\* exactly one entry tagged 'complementary', the hue base+180.
C11_TwoAnalogousOneComplementary ==
  (ColorsRecommended /\ ~BaseIsNeutral) =>
    /\ Len(Tagged("analogous")) = 2
    /\ Tagged("analogous")[1].hex = HexOfHue(30)
    /\ Tagged("analogous")[2].hex = HexOfHue(330)
    /\ Len(Tagged("complementary")) = 1
    /\ Tagged("complementary")[1].hex = HexOfHue(180)

\* The hex codes of the fixed neutral palette, lower-cased.
PaletteHex == {LowerHex(NEUTRAL_COLOR_HEX[name]) : name \in NeutralNames}

\* C12: for a base colour whose name is a neutral name (in any case),
\* generate_recommended_colors returns only the neutral palette when
\* include_neutrals is true: every entry is tagged 'neutral' and each distinct
\* palette hex occurs exactly once, 'gray' and 'grey' giving one entry; it
\* returns the empty list when include_neutrals is false.
C12_NeutralBase ==
  (ColorsRecommended /\ BaseIsNeutral) =>
    IF result.include_neutrals
      THEN /\ \A i \in 1..Len(result.colors) : result.colors[i].harmony_type = "neutral"
           /\ {result.colors[i].hex : i \in 1..Len(result.colors)} = PaletteHex
           /\ \A i, j \in 1..Len(result.colors) :
                result.colors[i].hex = result.colors[j].hex => i = j
           /\ Len(result.colors) = 8
      ELSE result.colors = <<>>

\* C12 witness: the base named "BLACK" with neutrals asked for: 8 entries, one
\* of them the shared hex of gray and grey.
C12_Witness ==
  /\ ColorsRecommended
  /\ base_item.color.name = "BLACK"
  /\ result.include_neutrals
  /\ Len(result.colors) = 8
  /\ result.colors[3] = RecommendedColor(<<"#", "8", "0", "8", "0", "8", "0">>, "gray", "neutral")
  /\ result.colors[4].name = "navy"

\* C13: every colour generate_recommended_colors returns carries a
\* harmony_type of neutral, analogous or complementary; none is tagged 'none'
\* or 'triadic'.
C13_HarmonyTypes ==
  ColorsRecommended =>
    \A i \in 1..Len(result.colors) :
      /\ result.colors[i].harmony_type \in {"neutral", "analogous", "complementary"}
      /\ result.colors[i].harmony_type \notin {"none", "triadic"}

\* C13 witness: a chromatic base with neutrals asked for, where all three
\* harmony types occur among the 11 colours.
C13_Witness ==
  /\ ColorsRecommended
  /\ ~BaseIsNeutral
  /\ result.include_neutrals
  /\ Len(result.colors) = 11
  /\ Tagged("neutral") # <<>>
  /\ Tagged("analogous") # <<>>
  /\ Tagged("complementary") # <<>>

ColorsCompared == result.op = "check_color_compatibility"

\* The hue distance of the two colours compared.
ComparedDistance ==
  LET d == IF base_item.color.hsl.h >= new_item.color.hsl.h
             THEN base_item.color.hsl.h - new_item.color.hsl.h
             ELSE new_item.color.hsl.h - base_item.color.hsl.h
  IN  IF d <= 360 - d THEN d ELSE 360 - d

\* C16: check_color_compatibility decides in strict priority order:
\* (TRUE, 'neutral') if either name is a neutral name in any case, whatever
\* the hues; otherwise, with d the hue distance, (TRUE, 'analogous') if
\* d <= 30, (TRUE, 'complementary') if 165 <= d <= 180, (TRUE, 'triadic') if
\* 105 <= d <= 135, and (FALSE, 'none') in every other case.
C16_CompatibilityPriority ==
  ColorsCompared =>
    result.value =
      (IF BaseIsNeutral \/ Lower(new_item.color.name) \in NeutralNames
         THEN <<TRUE, "neutral">>
       ELSE IF ComparedDistance <= 30 THEN <<TRUE, "analogous">>
       ELSE IF 165 <= ComparedDistance /\ ComparedDistance <= 180
         THEN <<TRUE, "complementary">>
       ELSE IF 105 <= ComparedDistance /\ ComparedDistance <= 135
         THEN <<TRUE, "triadic">>
       ELSE <<FALSE, "none">>)

\* C16 witness: "BLACK" (hue 0) against a chromatic colour 15 degrees away:
\* neutral and within 30 degrees, and the answer is 'neutral'.
C16_Witness ==
  /\ ColorsCompared
  /\ base_item.color.name = "BLACK"
  /\ ~(Lower(new_item.color.name) \in NeutralNames)
  /\ ComparedDistance = 15
  /\ result.value = <<TRUE, "neutral">>

\* C16, the boundaries of the bands, reached as well: 104 and 136 degrees are
\* 'none', 105 and 135 'triadic', 164 'none', 165 'complementary'.
C16_WitnessBoundaries ==
  /\ ColorsCompared
  /\ ~BaseIsNeutral
  /\ ~(Lower(new_item.color.name) \in NeutralNames)
  /\ ComparedDistance = 164
  /\ result.value = <<FALSE, "none">>

---------------------------------------------------------------------------
(* The caller of score_item_match and filter_and_rank_items: a closet.     *)

\* ClothingItemResponse: a ClothingItemBase with its database id.
ClothingItemResponse(id, color, category, formality, aesthetics) ==
  [id |-> id, color |-> color, category |-> category,
   formality |-> formality, aesthetics |-> aesthetics]

\* A colour of the closet: only the hex code enters the matching.
ClosetColor(hex) == Color(hex, HSL(0, 0, 0), "closet", FALSE)

HexBlack == <<"#", "0", "0", "0", "0", "0", "0">>

\* The items of the closet.  Against black the distances are 0 (a, b, d),
\* 45 (c), sqrt(200) (f) and 510 (g); a and b differ in nothing but the id.
ClosetItems ==
  { ClothingItemResponse("a", ClosetColor(HexBlack), Category("Bottoms", "Jeans"), Level(3), <<>>),
    ClothingItemResponse("b", ClosetColor(HexBlack), Category("Bottoms", "Jeans"), Level(3), <<>>),
    ClothingItemResponse("c", ClosetColor(<<"#", "0", "3", "1", "5", "0", "9">>),
                         Category("Bottoms", "Shorts"), Level(3), <<>>),
    ClothingItemResponse("d", ClosetColor(HexBlack), Category("Bottoms", "Joggers"), Level(5), <<>>),
    ClothingItemResponse("f", ClosetColor(<<"#", "0", "a", "0", "0", "0", "0">>),
                         Category("Bottoms", "Skirts"), 18, <<>>),
    ClothingItemResponse("g", ClosetColor(<<"#", "0", "0", "F", "F", "0", "0">>),
                         Category("Tops", "T-Shirts"), Level(5), <<>>) }

\* The lists of recommended colours: one with the best match second, and the
\* empty one.
RecommendedColorLists ==
  { << RecommendedColor(<<"#", "F", "F", "0", "0", "0", "0">>, "red", "analogous"),
       RecommendedColor(<<"#", "0", "0", "0", "0", "0", "0">>, "black", "neutral") >>,
    << >> }

\* The formality ranges: 2.0 to 4.0, and 1.0 to 1.5.
FormalityRanges == {FormalityRange(Level(2), Level(4)), FormalityRange(Level(1), 6)}

\* limit is 1 to 10 at the endpoint (routers/closet.py).
Limits == {1, 2}

\* min_score: the default 40.0, and 85.0.
MinScores == {Points(40), Points(85)}

\* The most items of a closet.
MaxCloset == 3

InitMatching ==
  /\ base_item = NoItem
  /\ items = <<>>
  /\ new_item = NoItem
  /\ filled_categories = <<>>
  /\ result = NoResult
  /\ heap = NoHeap

\* The closet gets an item it does not hold yet.
AddClosetItem ==
  \E item \in ClosetItems :
    /\ Len(items) < MaxCloset
    /\ \A i \in 1..Len(items) : items[i].id # item.id
    /\ items' = Append(items, item)
    /\ result' = NoResult
    /\ UNCHANGED <<base_item, new_item, filled_categories, heap>>

CallScoreItemMatch ==
  \E i \in 1..Len(items), recommended_colors \in RecommendedColorLists,
     the_range \in FormalityRanges :
    /\ result' = [op |-> "score_item_match",
                  item |-> items[i],
                  recommended_colors |-> recommended_colors,
                  formality_range |-> the_range,
                  score |-> score_item_match(items[i], recommended_colors, the_range)]
    /\ UNCHANGED <<base_item, items, new_item, filled_categories, heap>>

CallFilterAndRankItems ==
  \E category_l1 \in {"Bottoms", "Tops"}, recommended_colors \in RecommendedColorLists,
     the_range \in FormalityRanges, limit \in Limits, min_score \in MinScores :
    /\ result' = [op |-> "filter_and_rank_items",
                  category_l1 |-> category_l1,
                  recommended_colors |-> recommended_colors,
                  formality_range |-> the_range,
                  limit |-> limit,
                  min_score |-> min_score,
                  value |-> filter_and_rank_items(items, category_l1, recommended_colors,
                                                  the_range, limit, min_score)]
    /\ UNCHANGED <<base_item, items, new_item, filled_categories, heap>>

NextMatching == AddClosetItem \/ CallScoreItemMatch \/ CallFilterAndRankItems

SpecMatching == InitMatching /\ [][NextMatching]_vars

---------------------------------------------------------------------------
(* Claims about the matching functions, checked under SpecMatching.        *)

Ranked == result.op = "filter_and_rank_items"

\* The score of the closet's i-th item under the arguments of the call.
MatchScore(i) ==
  score_item_match(items[i], result.recommended_colors, result.formality_range)

\* The closet items the call keeps: the requested L1, and the score reached.
Eligible ==
  {i \in 1..Len(items) :
     /\ items[i].category.l1 = result.category_l1
     /\ ScoreGE(MatchScore(i), result.min_score)}

\* Item i comes before item j: a higher score, or the same and earlier.
ComesBefore(i, j) ==
  \/ ~ScoreGE(MatchScore(j), MatchScore(i))
  \/ ScoreGE(MatchScore(j), MatchScore(i)) /\ ScoreGE(MatchScore(i), MatchScore(j)) /\ i < j

\* The place of an eligible item in the stable descending order.
RankOf(i) == Cardinality({j \in Eligible : ComesBefore(j, i)}) + 1

\* The score of an item the call returned.
ReturnedScore(r) ==
  score_item_match(result.value[r], result.recommended_colors, result.formality_range)

\* C14: filter_and_rank_items returns exactly the first `limit' items of the
\* eligible items (requested L1, score >= min_score) in stable descending
\* order of score.  Hence every returned item has the requested L1 and a score
\* >= min_score, scores do not increase along the result, items of equal score
\* keep their input order, at most `limit' items come back, and no omitted
\* eligible item scores higher than a returned one.
C14_FilterAndRank ==
  Ranked =>
    LET n == IF result.limit <= Cardinality(Eligible)
               THEN result.limit ELSE Cardinality(Eligible)
        value == result.value
    IN  /\ Len(value) = n
        /\ \A i \in Eligible : RankOf(i) <= n => value[RankOf(i)] = items[i]
        /\ \A r \in 1..Len(value) :
             /\ value[r].category.l1 = result.category_l1
             /\ ScoreGE(ReturnedScore(r), result.min_score)
        /\ \A r \in 1..(Len(value) - 1) : ScoreGE(ReturnedScore(r), ReturnedScore(r + 1))
        /\ Len(value) <= result.limit
        /\ \A i \in Eligible :
             (\A r \in 1..Len(value) : value[r] # items[i]) =>
               \A r \in 1..Len(value) : ScoreGE(ReturnedScore(r), MatchScore(i))

\* C14 witness: the closet [f, b, a] ranked for Bottoms with limit 2: a and
\* b score 100 and f less, so b and a come back in their input order and f,
\* though eligible, is cut off.
C14_Witness ==
  /\ Ranked
  /\ Len(items) = 3
  /\ items[1].id = "f" /\ items[2].id = "b" /\ items[3].id = "a"
  /\ result.limit = 2
  /\ Eligible = {1, 2, 3}
  /\ Len(result.value) = 2
  /\ result.value[1].id = "b"
  /\ result.value[2].id = "a"

ItemScored == result.op = "score_item_match"

\* The square of the smallest colour distance from the item scored to a
\* recommended colour.
SmallestDistance ==
  LET distances == {color_distance(result.item.color.hex, result.recommended_colors[k].hex) :
                      k \in 1..Len(result.recommended_colors)}
  IN  CHOOSE d \in distances : \A e \in distances : d <= e

\* The distance of the item's formality outside the range, in quarter levels.
OutsideRange ==
  IF result.item.formality < result.formality_range.min
    THEN result.formality_range.min - result.item.formality
  ELSE IF result.item.formality > result.formality_range.max
    THEN result.item.formality - result.formality_range.max
  ELSE 0

\* C15: for a non-empty list of recommended colours, score_item_match returns
\* color + formality, where color = max(0, 50 - d/3) for the smallest colour
\* distance d and formality = 50 inside the range, else max(0, 50 - 15 g) for
\* the distance g outside it; the result lies in [0, 100].  (Twelfths of a
\* point, g in quarter levels: 15 points a level are 45 twelfths a quarter.)
C15_ScoreItemMatch ==
  (ItemScored /\ result.recommended_colors # <<>>) =>
    LET color == IF SmallestDistance >= 22500 THEN Score(0, 0)
                 ELSE Score(12 * 50, 16 * SmallestDistance)
        formality == IF OutsideRange = 0 THEN 12 * 50
                     ELSE IF 12 * 50 - 45 * OutsideRange < 0 THEN 0
                     ELSE 12 * 50 - 45 * OutsideRange
        expected == Score(color.whole + formality, color.root)
    IN  /\ ScoreGE(result.score, expected)
        /\ ScoreGE(expected, result.score)
        /\ ScoreGE(result.score, Points(0))
        /\ ScoreGE(Points(100), result.score)

\* C15 witness: item f (4.5, at sqrt(200) from black) against the range 2.0
\* to 4.0: 50 - sqrt(200)/3 for the colour and 42.5 for the formality.
C15_Witness ==
  /\ ItemScored
  /\ result.item.id = "f"
  /\ Len(result.recommended_colors) = 2
  /\ result.formality_range = FormalityRange(Level(2), Level(4))
  /\ SmallestDistance = 200
  /\ OutsideRange = 2
  /\ result.score = Score(600 + 510, 3200)

\* C15, both parts at 0, reached as well: item g, far from both colours and
\* 3.5 levels above the range 1.0 to 1.5.
C15_WitnessZero ==
  /\ ItemScored
  /\ result.item.id = "g"
  /\ result.recommended_colors # <<>>
  /\ OutsideRange = 14
  /\ result.score = Score(0, 0)

---------------------------------------------------------------------------
(* The callers of the pairwise checks: two items.                          *)

\* The categories of the two items: every shoe of the pairing table and one
\* outside it, every bottom, both full-body garments, a top and an accessory.
PairCategories ==
  {Category("Shoes", l2) : l2 \in Range(CATEGORY_TAXONOMY["Shoes"]) \cup {"Clogs"}}
    \cup {Category("Bottoms", l2) : l2 \in Range(CATEGORY_TAXONOMY["Bottoms"])}
    \cup {Category("Full Body", l2) : l2 \in Range(CATEGORY_TAXONOMY["Full Body"])}
    \cup {Category("Tops", "T-Shirts"), Category("Accessories", "Belts")}

\* Every category at formality 3.0, and every formality from 1.0 to 5.0 in
\* quarter levels on a T-shirt.
PairItems ==
  {ClothingItemBase(Navy, category, Level(3), <<>>) : category \in PairCategories}
    \cup {ClothingItemBase(Navy, Category("Tops", "T-Shirts"), formality, <<>>) :
            formality \in Level(1)..Level(5)}

InitPair ==
  /\ base_item \in PairItems
  /\ new_item \in PairItems
  /\ items = <<>>
  /\ filled_categories = <<>>
  /\ result = NoResult
  /\ heap = NoHeap

CallCheckFormalityCompatibility ==
  /\ result' = [op |-> "check_formality_compatibility",
                value |-> check_formality_compatibility(new_item.formality,
                                                        base_item.formality)]
  /\ UNCHANGED <<base_item, items, new_item, filled_categories, heap>>

CallCheckCategoryPairing ==
  /\ result' = [op |-> "check_category_pairing",
                value |-> check_category_pairing(new_item, base_item)]
  /\ UNCHANGED <<base_item, items, new_item, filled_categories, heap>>

\* validate_item of new_item against base_item and an empty outfit.
ValidatePairAsItem ==
  /\ result' = validate_item(new_item, base_item, items)
  /\ UNCHANGED <<base_item, items, new_item, filled_categories, heap>>

\* validate_outfit of the outfit [base_item, new_item].
ValidatePairAsOutfit ==
  \E missing_categories \in
       ListsOf(check_outfit_composition(full_outfit(<<new_item>>, base_item))[2]) :
    /\ result' = validate_outfit(<<new_item>>, base_item, missing_categories)
    /\ UNCHANGED <<base_item, items, new_item, filled_categories, heap>>

NextPair ==
  \/ CallCheckFormalityCompatibility
  \/ CallCheckCategoryPairing
  \/ ValidatePairAsItem
  \/ ValidatePairAsOutfit

SpecPair == InitPair /\ [][NextPair]_vars

---------------------------------------------------------------------------
(* Claims about the pairwise checks, checked under SpecPair.               *)

FormalityChecked == result.op = "check_formality_compatibility"

\* |f1 - f2| of the two items, in quarter levels.
FormalityGap ==
  IF new_item.formality >= base_item.formality
    THEN new_item.formality - base_item.formality
    ELSE base_item.formality - new_item.formality

\* C17 (as claimed): for all formalities in [1, 5], whole or not,
\* check_formality_compatibility returns status 'ok' iff |f1 - f2| <= 1,
\* 'warning' iff 1 < |f1 - f2| <= 2 and 'mismatch' iff |f1 - f2| > 2, the
\* result is the same with f1 and f2 swapped, and the message is null iff the
\* status is 'ok'.  (Quarter levels: 4 is 1.0, 8 is 2.0.)
C17_ResultSymmetric ==
  FormalityChecked =>
    /\ (result.value[1] = "ok" <=> FormalityGap <= 4)
    /\ (result.value[1] = "warning" <=> (4 < FormalityGap /\ FormalityGap <= 8))
    /\ (result.value[1] = "mismatch" <=> FormalityGap > 8)
    /\ result.value =
         check_formality_compatibility(base_item.formality, new_item.formality)
    /\ (result.value[2] = None <=> result.value[1] = "ok")

\* C17 (amended): as above, but it is the status that is the same with f1
\* and f2 swapped; the message names f1 before f2, so it changes with the
\* order of the arguments whenever the status is not 'ok' and f1 # f2.
C17_FormalityStatus ==
  FormalityChecked =>
    /\ (result.value[1] = "ok" <=> FormalityGap <= 4)
    /\ (result.value[1] = "warning" <=> (4 < FormalityGap /\ FormalityGap <= 8))
    /\ (result.value[1] = "mismatch" <=> FormalityGap > 8)
    /\ result.value[1] =
         check_formality_compatibility(base_item.formality, new_item.formality)[1]
    /\ (result.value[2] = None <=> result.value[1] = "ok")
    /\ (result.value[1] # "ok" /\ new_item.formality # base_item.formality) =>
         result.value[2] #
           check_formality_compatibility(base_item.formality, new_item.formality)[2]

\* C17 witness: 1.5 against 3.5, a gap of exactly 2.0 between formalities
\* that are not whole: a warning, with its message.
C17_Witness ==
  /\ FormalityChecked
  /\ new_item.formality = 6
  /\ base_item.formality = 14
  /\ result.value[1] = "warning"
  /\ result.value[2] # None

PairingChecked == result.op = "check_category_pairing"

\* The allowed list of a shoe type; empty for a type the table does not hold.
AllowedBottoms(shoe_l2) ==
  IF shoe_l2 \in DOMAIN SHOE_BOTTOM_PAIRINGS
    THEN {SHOE_BOTTOM_PAIRINGS[shoe_l2][k] : k \in 1..Len(SHOE_BOTTOM_PAIRINGS[shoe_l2])}
    ELSE {}

\* The shoe does not go with the other item.
ShoeWarns(shoe, other) ==
  /\ shoe.category.l1 = "Shoes"
  /\ \/ other.category.l1 = "Bottoms"
        /\ other.category.l2 \notin AllowedBottoms(shoe.category.l2)
     \/ other.category.l1 = "Full Body"
        /\ "Dresses" \notin AllowedBottoms(shoe.category.l2)
        /\ "Suits" \notin AllowedBottoms(shoe.category.l2)

UnknownShoe(item) ==
  /\ item.category.l1 = "Shoes"
  /\ item.category.l2 \notin {"Oxfords", "Loafers", "Sneakers", "Boots", "Sandals", "Heels"}

\* The partner of the unknown shoe is a bottom or a full-body garment.
UnknownShoeMeetsBottom ==
  \/ UnknownShoe(new_item) /\ base_item.category.l1 \in {"Bottoms", "Full Body"}
  \/ UnknownShoe(base_item) /\ new_item.category.l1 \in {"Bottoms", "Full Body"}

\* C19: a miss in the shoe pairing table is never an error: for a shoe whose
\* L2 the table does not hold, check_category_pairing returns 'warning' for
\* every partner of L1 'Bottoms' or 'Full Body' and 'ok' for every other
\* partner, and validate_item and validate_outfit on such a shoe return their
\* complete result, the pairing warning in it.
C19_UnknownShoe ==
  (UnknownShoe(new_item) \/ UnknownShoe(base_item)) =>
    /\ PairingChecked =>
         /\ result.value[1] \in {"ok", "warning"}
         /\ (result.value[1] = "warning" <=> UnknownShoeMeetsBottom)
    /\ result.op = "validate_item" =>
         /\ DOMAIN result = {"op", "color_status", "formality_status",
                             "aesthetic_status", "pairing_status", "warnings"}
         /\ result.pairing_status = (IF UnknownShoeMeetsBottom THEN "warning" ELSE "ok")
         /\ UnknownShoeMeetsBottom <=>
              \E i \in 1..Len(result.warnings) :
                result.warnings[i].kind = "typically don't pair with"
    /\ result.op = "validate_outfit" =>
         /\ DOMAIN result = {"op", "is_complete", "cohesion_score", "verdict",
                             "warnings", "color_strip"}
         /\ result.cohesion_score \in 0..100
         /\ Len(result.color_strip) = 2
         /\ UnknownShoeMeetsBottom <=>
              \E i \in 1..Len(result.warnings) :
                result.warnings[i].kind = "typically don't pair with"

\* C19 witness: validate_outfit of Jeans with Clogs: the result is there, with
\* the pairing warning that names both.
C19_Witness ==
  /\ result.op = "validate_outfit"
  /\ base_item.category = Category("Bottoms", "Jeans")
  /\ new_item.category = Category("Shoes", "Clogs")
  /\ \E i \in 1..Len(result.warnings) :
       /\ result.warnings[i].kind = "typically don't pair with"
       /\ result.warnings[i].strs = <<"Clogs", "Jeans">>

---------------------------------------------------------------------------
(* The caller of get_hue_distance: two colours of any hue.                 *)

\* The hues of HSL.h: 0 <= h < 360.
Hues == 0..359

\* The fully saturated colour of a hue.
HueItem(h) == ColorItem(hsl_to_color(HSL(h, 100, 50)))

InitHue ==
  /\ base_item \in {HueItem(h) : h \in Hues}
  /\ new_item \in {HueItem(h) : h \in Hues}
  /\ items = <<>>
  /\ filled_categories = <<>>
  /\ result = NoResult
  /\ heap = NoHeap

CallGetHueDistance ==
  /\ result' = [op |-> "get_hue_distance",
                value |-> get_hue_distance_HSL(base_item.color.hsl, new_item.color.hsl)]
  /\ UNCHANGED <<base_item, items, new_item, filled_categories, heap>>

NextHue == CallGetHueDistance

SpecHue == InitHue /\ [][NextHue]_vars

---------------------------------------------------------------------------
(* Claim about get_hue_distance, checked under SpecHue.                    *)

HueDistanceTaken == result.op = "get_hue_distance"

\* C20: for all integer hues h1, h2 in [0, 360), get_hue_distance(h1, h2) is
\* min(|h1 - h2|, 360 - |h1 - h2|): it is symmetric, it is 0 iff h1 = h2, it
\* never exceeds 180, and it wraps across 0 (350 and 10 are 20 apart).
C20_HueDistance ==
  HueDistanceTaken =>
    LET h1 == base_item.color.hsl.h
        h2 == new_item.color.hsl.h
        d == IF h1 >= h2 THEN h1 - h2 ELSE h2 - h1
    IN  /\ result.value = (IF d <= 360 - d THEN d ELSE 360 - d)
        /\ result.value = get_hue_distance(h2, h1)
        /\ (result.value = 0 <=> h1 = h2)
        /\ result.value >= 0
        /\ result.value <= 180
        /\ (h1 = 350 /\ h2 = 10) => result.value = 20

\* C20 witness: the hues 350 and 10, 20 degrees apart across 0.
C20_Witness ==
  /\ HueDistanceTaken
  /\ base_item.color.hsl.h = 350
  /\ new_item.color.hsl.h = 10
  /\ result.value = 20

---------------------------------------------------------------------------
(* The caller of get_verdict: every score from 0 to 100, complete and      *)
(* incomplete outfits, with and without warnings.                          *)

Scores == 0..100

VerdictWarnings ==
  { <<>>,
    <<Msg("Missing required categories", <<"Shoes">>, <<>>)>>,
    <<Msg("colors may clash", <<"Jeans", "Polos">>, <<>>),
      Msg("Formality mismatch", <<"Jeans", "Polos">>, <<>>)>> }

InitVerdict ==
  /\ base_item = NoItem
  /\ items = <<>>
  /\ new_item = NoItem
  /\ filled_categories = <<>>
  /\ result = NoResult
  /\ heap = NoHeap

CallGetVerdict ==
  \E score \in Scores, is_complete \in BOOLEAN, warnings \in VerdictWarnings :
    /\ result' = [op |-> "get_verdict", score |-> score,
                  is_complete |-> is_complete, warnings |-> warnings,
                  value |-> get_verdict(score, is_complete, warnings)]
    /\ UNCHANGED <<base_item, items, new_item, filled_categories, heap>>

NextVerdict == CallGetVerdict

SpecVerdict == InitVerdict /\ [][NextVerdict]_vars

---------------------------------------------------------------------------
(* Claims about get_verdict, checked under SpecVerdict.                    *)

VerdictGiven == result.op = "get_verdict"

\* C23: get_verdict returns the `Incomplete outfit' verdict whenever
\* is_complete is false, for every score; for a complete outfit it returns
\* Excellent iff score >= 85, Good iff 70 <= score < 85, Decent iff
\* 50 <= score < 70 and Consider revising iff score < 50; the warnings passed
\* never change the verdict.
C23_Verdict ==
  VerdictGiven =>
    LET v == result.value
        s == result.score
    IN  /\ ~result.is_complete => v = "Incomplete outfit - missing required items"
        /\ result.is_complete =>
             /\ (v = "Excellent cohesive look!") <=> (s >= 85)
             /\ (v = "Good outfit with minor style considerations") <=> (70 <= s /\ s < 85)
             /\ (v = "Decent outfit, but some elements may clash") <=> (50 <= s /\ s < 70)
             /\ (v = "Consider revising - multiple style conflicts") <=> (s < 50)
        /\ \A w \in VerdictWarnings : get_verdict(s, result.is_complete, w) = v

\* C23 witness: an incomplete outfit with a score of 90 and no warning gets
\* the `Incomplete outfit' verdict.
C23_Witness ==
  /\ VerdictGiven
  /\ ~result.is_complete
  /\ result.score = 90
  /\ result.warnings = <<>>
  /\ result.value = "Incomplete outfit - missing required items"

\* C23 witness: a complete outfit at the boundary 85, with warnings, is
\* Excellent.
C23_WitnessBoundary ==
  /\ VerdictGiven
  /\ result.is_complete
  /\ result.score = 85
  /\ result.warnings # <<>>
  /\ result.value = "Excellent cohesive look!"

---------------------------------------------------------------------------
(* The caller of color_distance: colour codes with and without the `#',    *)
(* in upper and lower case, from black to white.                           *)

\* Two hex digits and the channel value they stand for.
Channel(d1, d2, value) == [text |-> <<d1, d2>>, value |-> value]

DistanceChannels ==
  { Channel("0", "0", 0), Channel("0", "a", 10), Channel("0", "A", 10),
    Channel("f", "f", 255), Channel("F", "F", 255) }

\* A colour code as it is passed to color_distance, with the RGB value it
\* denotes.
HexArgument(prefix, r, g, b) ==
  [hex |-> prefix \o r.text \o g.text \o b.text, rgb |-> <<r.value, g.value, b.value>>]

HexArguments ==
  {HexArgument(prefix, r, g, b) : prefix \in {<<>>, <<"#">>},
                                   r \in DistanceChannels, g \in DistanceChannels,
                                   b \in DistanceChannels}

InitDistance ==
  /\ base_item \in HexArguments
  /\ new_item \in HexArguments
  /\ items = <<>>
  /\ filled_categories = <<>>
  /\ result = NoResult
  /\ heap = NoHeap

CallColorDistance ==
  /\ result' = [op |-> "color_distance",
                squared |-> color_distance(base_item.hex, new_item.hex)]
  /\ UNCHANGED <<base_item, items, new_item, filled_categories, heap>>

NextDistance == CallColorDistance

SpecDistance == InitDistance /\ [][NextDistance]_vars

---------------------------------------------------------------------------
(* Claims about color_distance, checked under SpecDistance.                *)

DistanceTaken == result.op = "color_distance"

\* 2*dr^2 + 4*dg^2 + 3*db^2 of two RGB values.
WeightedSquares(rgb1, rgb2) ==
  LET dr == rgb1[1] - rgb2[1]
      dg == rgb1[2] - rgb2[2]
      db == rgb1[3] - rgb2[3]
  IN  2 * dr * dr + 4 * dg * dg + 3 * db * db

\* The square of the largest value the documentation of color_distance
\* allows, ~441 rounded up to 442.
DocumentedMaximumSquared == 442 * 442

\* The part of C24 that holds: the value is sqrt(2*dr^2 + 4*dg^2 + 3*db^2),
\* the same in both argument orders, and 0 iff both codes denote one RGB
\* value, whatever their letter case and `#' prefix.
C24_WeightedDistance ==
  DistanceTaken =>
    /\ result.squared = WeightedSquares(base_item.rgb, new_item.rgb)
    /\ result.squared = color_distance(new_item.hex, base_item.hex)
    /\ (result.squared = 0) <=> (base_item.rgb = new_item.rgb)
    /\ result.squared <= WeightedSquares(<<0, 0, 0>>, <<255, 255, 255>>)

\* Black against white: the largest distance, 765.
C24_BlackWhite ==
  /\ DistanceTaken
  /\ base_item.rgb = <<0, 0, 0>>
  /\ new_item.rgb = <<255, 255, 255>>
  /\ result.squared = 765 * 765

\* C24: for every pair of 6-hex-digit colours color_distance is
\* sqrt(2*dr^2 + 4*dg^2 + 3*db^2), symmetric, 0 iff the two colours have the
\* same RGB value (whatever the letter case and the `#' prefix), and lies in
\* [0, ~441], the maximum being reached for black versus white.
C24_ColorDistance ==
  DistanceTaken =>
    /\ result.squared = WeightedSquares(base_item.rgb, new_item.rgb)
    /\ result.squared = color_distance(new_item.hex, base_item.hex)
    /\ (result.squared = 0) <=> (base_item.rgb = new_item.rgb)
    /\ result.squared >= 0
    /\ result.squared <= DocumentedMaximumSquared

---------------------------------------------------------------------------
(* The caller of get_color_name_from_hsl: every hue from 0 to 360, with    *)
(* the saturations and lightnesses on both sides of every threshold of     *)
(* the function.                                                           *)

NamingHues == 0..360

NamingSaturations == {0, 9, 10, 11, 50, 100}

NamingLightnesses == {0, 4, 5, 14, 15, 20, 21, 50, 51, 65, 66, 90, 91, 95, 96, 100}

InitNaming ==
  /\ base_item \in {HSL(h, s, l) : h \in NamingHues, s \in NamingSaturations,
                                   l \in NamingLightnesses}
  /\ items = <<>>
  /\ new_item = NoItem
  /\ filled_categories = <<>>
  /\ result = NoResult
  /\ heap = NoHeap

CallGetColorName ==
  /\ result' = [op |-> "get_color_name_from_hsl",
                value |-> get_color_name_from_hsl(base_item)]
  /\ UNCHANGED <<base_item, items, new_item, filled_categories, heap>>

NextNaming == CallGetColorName

SpecNaming == InitNaming /\ [][NextNaming]_vars

---------------------------------------------------------------------------
(* Claims about get_color_name_from_hsl, checked under SpecNaming.         *)

Named == result.op = "get_color_name_from_hsl"

ColorNames ==
  {"black", "white", "gray", "red", "orange", "yellow", "green", "teal", "cyan",
   "navy", "blue", "violet", "purple", "magenta", "pink"}

\* Neither too grey nor too dark nor too light: the hue decides the name.
NamedByHue == base_item.s >= 10 /\ base_item.l >= 5 /\ base_item.l <= 95

C25_WitnessGray ==
  /\ Named
  /\ base_item.s = 9
  /\ base_item.l = 90
  /\ result.value = "gray"

---------------------------------------------------------------------------
(* A caller that builds an outfit item by item: an item joins the outfit   *)
(* only when validate_item accepts it against the base item and the        *)
(* outfit so far, and validate_outfit is called on what was built.         *)

BuildItems ==
  OutfitItems \cup
  { ClothingItemBase(Teal, Category("Outerwear", "Jackets"), 14, <<"Classic">>),
    ClothingItemBase(Navy, Category("Bottoms", "Chinos"), Level(4), <<"Classic">>),
    ClothingItemBase(Red, Category("Shoes", "Loafers"), Level(4), <<>>) }

\* The longest list of items the building runs reach.
MaxBuild == 3

InitBuild ==
  /\ base_item \in BuildItems
  /\ items = <<>>
  /\ new_item = NoItem
  /\ filled_categories = <<>>
  /\ result = NoResult
  /\ heap = NoHeap

\* validate_item accepts x: color_status "ok", formality_status other than
\* "mismatch", pairing_status "ok".
Accepted(validated) ==
  /\ validated.color_status = "ok"
  /\ validated.formality_status # "mismatch"
  /\ validated.pairing_status = "ok"

AddAcceptedItem ==
  \E x \in BuildItems :
    /\ Len(items) < MaxBuild
    /\ Accepted(validate_item(x, base_item, items))
    /\ items' = Append(items, x)
    /\ result' = NoResult
    /\ UNCHANGED <<base_item, new_item, filled_categories, heap>>

NextBuild == AddAcceptedItem \/ CallValidateOutfit

SpecBuild == InitBuild /\ [][NextBuild]_vars

---------------------------------------------------------------------------
(* Claims about incremental building, checked under SpecBuild.             *)

\* C26: after any sequence of additions that validate_item accepted
\* (color_status "ok", formality_status not "mismatch", pairing_status "ok"),
\* validate_outfit on the outfit built emits no colour-clash warning, no
\* formality-mismatch warning and no category-pairing warning: only the size
\* and the missing-categories warnings remain.
C26_BuiltOutfitValidates ==
  Validated =>
    /\ OfKind(result.warnings, "colors may clash") = <<>>
    /\ OfKind(result.warnings, "Formality mismatch") = <<>>
    /\ OfKind(result.warnings, "typically don't pair with") = <<>>
    /\ \A i \in 1..Len(result.warnings) :
         result.warnings[i].kind \in {"Outfit has items (max)", "Missing required categories"}

\* C26 witness: an outfit of four members built by accepted additions, one
\* pair of which is in the formality warning tier, validated.
C26_Witness ==
  /\ Validated
  /\ Len(items) = 3
  /\ GapPairs(FullOutfit) # {}
  /\ ~result.is_complete
  /\ Len(result.warnings) = 1

\* C26 second case, reached as well: a complete outfit built by accepted
\* additions validates without any warning.
C26_WitnessComplete ==
  /\ Validated
  /\ Len(items) = 3
  /\ result.is_complete
  /\ result.warnings = <<>>

---------------------------------------------------------------------------
(* The caller of calculate_cohesion_score on the outfits whose members are *)
(* listed in every order.                                                  *)

\* Members with every colour relation, formalities from 1.0 to 5.0 and tag
\* lists with 0, 1 and 2 common tags.
OrderItems ==
  { ClothingItemBase(Navy, Category("Tops", "T-Shirts"), Level(3), <<>>),
    ClothingItemBase(Red, Category("Bottoms", "Jeans"), Level(1), <<"Minimalist">>),
    ClothingItemBase(Green, Category("Shoes", "Sneakers"), Level(5), <<"Classic">>),
    ClothingItemBase(Red, Category("Outerwear", "Jackets"), Level(3),
                     <<"Minimalist", "Classic">>),
    ClothingItemBase(Teal, Category("Accessories", "Belts"), 5,
                     <<"Classic", "Minimalist">>) }

\* The longest list of items of these runs (the base item comes on top).
MaxMembers == 3

InitOrder ==
  /\ base_item \in OrderItems
  /\ items = <<>>
  /\ new_item = NoItem
  /\ filled_categories = <<>>
  /\ result = NoResult
  /\ heap = NoHeap

AddMember ==
  \E x \in OrderItems :
    /\ Len(items) < MaxMembers
    /\ items' = Append(items, x)
    /\ result' = NoResult
    /\ UNCHANGED <<base_item, new_item, filled_categories, heap>>

NextOrder == AddMember \/ CallCohesionScore

SpecOrder == InitOrder /\ [][NextOrder]_vars

---------------------------------------------------------------------------
(* Claims about the order of the members, checked under SpecOrder.         *)

\* `outfit' without its i-th member.
Without(outfit, i) == SubSeq(outfit, 1, i - 1) \o SubSeq(outfit, i + 1, Len(outfit))

\* The orders in which the members of `outfit' can be listed.
RECURSIVE PermutationsOf(_)
PermutationsOf(outfit) ==
  IF outfit = <<>> THEN {<<>>}
  ELSE UNION {{<<outfit[i]>> \o p : p \in PermutationsOf(Without(outfit, i))} :
                i \in 1..Len(outfit)}

\* C27: calculate_cohesion_score treats the base item like any other member:
\* the score is the same for every permutation of [base_item] + items, the
\* first member of the permutation being passed as the base item.
C27_PermutationInvariant ==
  Scored =>
    \A p \in PermutationsOf(FullOutfit) :
      calculate_cohesion_score(Tail(p), Head(p)) = result.score

\* C27 witness: a scored outfit of three distinct members with one clashing
\* pair, which does not involve the base item, and a base item whose
\* formality is neither the highest nor the lowest.
C27_Witness ==
  /\ Scored
  /\ Len(items) = 2
  /\ ClashingPairs(FullOutfit) = {<<2, 3>>}
  /\ base_item.formality # MaxFormality(FullOutfit)
  /\ base_item.formality # MinFormality(FullOutfit)
  /\ result.score < 100

---------------------------------------------------------------------------
(* The caller of the three harmony predicates with their default           *)
(* thresholds, and of check_color_compatibility, on two colours of any hue.*)

CallHarmonyPredicates ==
  /\ result' = [op |-> "harmony_predicates",
                analogous |-> are_colors_analogous(base_item.color.hsl, new_item.color.hsl, 30),
                complementary |-> are_colors_complementary(base_item.color.hsl,
                                                           new_item.color.hsl, 15),
                triadic |-> are_colors_triadic(base_item.color.hsl, new_item.color.hsl, 15)]
  /\ UNCHANGED <<base_item, items, new_item, filled_categories, heap>>

NextHarmony == CallHarmonyPredicates \/ CallCheckColorCompatibility

SpecHarmony == InitHue /\ [][NextHarmony]_vars

---------------------------------------------------------------------------
(* Claims about the harmony predicates, checked under SpecHarmony.         *)

PredicatesTested == result.op = "harmony_predicates"

\* The value of the harmony predicate `name' on the two colours.
Holds(name) ==
  CASE name = "analogous" ->
         are_colors_analogous(base_item.color.hsl, new_item.color.hsl, 30)
    [] name = "complementary" ->
         are_colors_complementary(base_item.color.hsl, new_item.color.hsl, 15)
    [] name = "triadic" ->
         are_colors_triadic(base_item.color.hsl, new_item.color.hsl, 15)

\* The harmony type found when the predicates are tested in the order `order'.
RECURSIVE HarmonyInOrder(_)
HarmonyInOrder(order) ==
  IF order = <<>> THEN "none"
  ELSE IF Holds(Head(order)) THEN Head(order)
  ELSE HarmonyInOrder(Tail(order))

TestOrders ==
  {order \in [1..3 -> {"analogous", "complementary", "triadic"}] :
     Cardinality({order[i] : i \in 1..3}) = 3}

BothChromatic ==
  ~is_neutral_color(base_item.color.name) /\ ~is_neutral_color(new_item.color.name)

\* C29: with the default thresholds (analogous 30, complementary 15,
\* triadic 15), for every pair of hues in [0,360) at most one of
\* are_colors_analogous, are_colors_complementary and are_colors_triadic is
\* true, so that the harmony type check_color_compatibility returns for a
\* pair without a neutral colour is the same in whatever order the three
\* predicates are tested.
C29_HarmoniesExclusive ==
  /\ PredicatesTested =>
       Cardinality({name \in {"analogous", "complementary", "triadic"} : result[name]}) <= 1
  /\ (ColorsCompared /\ BothChromatic) =>
       \A order \in TestOrders : result.value[2] = HarmonyInOrder(order)

\* C29 witness: at a hue distance of 135, the upper edge of the triadic band,
\* only the triadic predicate is true.
C29_Witness ==
  /\ PredicatesTested
  /\ get_hue_distance_HSL(base_item.color.hsl, new_item.color.hsl) = 135
  /\ ~result.analogous
  /\ ~result.complementary
  /\ result.triadic

\* C29 second case, reached as well: the lower edge of the complementary
\* band, 165, is returned as complementary for two chromatic colours.
C29_WitnessCompared ==
  /\ ColorsCompared
  /\ BothChromatic
  /\ get_hue_distance_HSL(base_item.color.hsl, new_item.color.hsl) = 165
  /\ result.value = <<TRUE, "complementary">>

---------------------------------------------------------------------------
(* Claims about what decides neutrality, checked under SpecColor.          *)

\* The colours with the name and the hue of `color' and another is_neutral
\* flag, hex code, saturation or lightness.
Variants(color) ==
  {Color(hex, HSL(color.hsl.h, s, l), color.name, flag) :
     hex \in {color.hex, <<"#", "1", "2", "3", "a", "b", "c">>},
     s \in {color.hsl.s, 5},
     l \in {color.hsl.l, 10},
     flag \in BOOLEAN}

\* The item `item' in the colour `color'.
Recolored(item, color) ==
  ClothingItemBase(color, item.category, item.formality, item.aesthetics)

\* What validate_outfit says of the compatibility of an outfit: all of its
\* result but the colour strip.
OutfitCompatibility(validated) ==
  <<validated.is_complete, validated.cohesion_score, validated.verdict, validated.warnings>>

\* The harmony of two hues, as for two colours that are not neutral.
HueHarmony(hsl1, hsl2) ==
  IF are_colors_analogous(hsl1, hsl2, 30) THEN <<TRUE, "analogous">>
  ELSE IF are_colors_complementary(hsl1, hsl2, 15) THEN <<TRUE, "complementary">>
  ELSE IF are_colors_triadic(hsl1, hsl2, 15) THEN <<TRUE, "triadic">>
  ELSE <<FALSE, "none">>

\* C30: neutrality is decided by the colour name only: two calls of
\* check_color_compatibility (and so of calculate_cohesion_score,
\* validate_item and validate_outfit) whose colours have the same names and
\* hues and differ in the is_neutral flag, the hex code, the saturation or
\* the lightness give the same compatibility results; a colour with
\* is_neutral = true and a name outside the neutral names is treated as not
\* neutral.
C30_NeutralByNameOnly ==
  ColorsCompared =>
    \A c1 \in Variants(base_item.color), c2 \in Variants(new_item.color) :
      LET base == Recolored(base_item, c1)
          new == Recolored(new_item, c2)
      IN  /\ check_color_compatibility(c1, c2) = result.value
          /\ calculate_cohesion_score(<<new>>, base)
               = calculate_cohesion_score(<<new_item>>, base_item)
          /\ validate_item(new, base, <<base>>) = validate_item(new_item, base_item, <<base_item>>)
          /\ \A missing \in ListsOf(check_outfit_composition(<<base, new>>)[2]) :
               OutfitCompatibility(validate_outfit(<<new>>, base, missing))
                 = OutfitCompatibility(validate_outfit(<<new_item>>, base_item, missing))
          /\ (~is_neutral_color(c1.name) /\ ~is_neutral_color(c2.name)) =>
               check_color_compatibility(c1, c2) = HueHarmony(c1.hsl, c2.hsl)

\* C30 witness: two colours without a neutral name whose hues clash; with the
\* is_neutral flag set on either of them the pair still clashes.
C30_Witness ==
  /\ ColorsCompared
  /\ base_item.color.name = "orange"
  /\ base_item.color.hsl.h = 31
  /\ ~base_item.color.is_neutral
  /\ new_item.color.name = "Silver"
  /\ result.value = <<FALSE, "none">>
  /\ \E c1 \in Variants(base_item.color), c2 \in Variants(new_item.color) :
       /\ c1.is_neutral
       /\ c2.is_neutral
       /\ check_color_compatibility(c1, c2) = <<FALSE, "none">>

\* C30 second case, reached as well: a colour with a neutral name and the
\* flag cleared is still compatible with a colour it would clash with by hue.
C30_WitnessNamedNeutral ==
  /\ ColorsCompared
  /\ base_item.color.name = "grey"
  /\ ~HueHarmony(base_item.color.hsl, new_item.color.hsl)[1]
  /\ ~is_neutral_color(new_item.color.name)
  /\ \E c1 \in Variants(base_item.color) :
       /\ ~c1.is_neutral
       /\ check_color_compatibility(c1, new_item.color) = <<TRUE, "neutral">>

---------------------------------------------------------------------------
(* The list objects of the core.  Python's lists, sets and dicts are       *)
(* objects with an identity: a name bound to a list holds a reference, and *)
(* append, extend, +=, sort and add change the object in place for every   *)
(* holder of the reference, while a list display, a comprehension, + and   *)
(* .copy() make a new object.  The heap maps the references of the objects *)
(* that are alive to their contents.  A reference names its owner (a table,*)
(* `argument', or the function whose local it is), the variable, and a key *)
(* where one function makes several objects for one variable.              *)

Ref(owner, name, key) == <<owner, name, key>>

\* The lists and dicts of utils/constants.py that the core reads.
TableRefs ==
  {Ref("CATEGORY_TAXONOMY", "list", l1) : l1 \in DOMAIN CATEGORY_TAXONOMY}
    \cup {Ref("SHOE_BOTTOM_PAIRINGS", "list", l2) : l2 \in DOMAIN SHOE_BOTTOM_PAIRINGS}
    \cup {Ref("NEUTRAL_COLOR_DATA", "dict", name) : name \in DOMAIN NEUTRAL_COLOR_HEX}
    \cup {Ref("NEUTRAL_COLORS", "list", "")}

TableValue(ref) ==
  CASE ref[1] = "CATEGORY_TAXONOMY" -> CATEGORY_TAXONOMY[ref[3]]
    [] ref[1] = "SHOE_BOTTOM_PAIRINGS" -> SHOE_BOTTOM_PAIRINGS[ref[3]]
    [] ref[1] = "NEUTRAL_COLOR_DATA" -> NEUTRAL_COLOR_HEX[ref[3]]
    [] ref[1] = "NEUTRAL_COLORS" -> NEUTRAL_COLORS

\* A statement that makes a new object: a list display or a comprehension.
NewList(target, value) == [kind |-> "new", target |-> target, value |-> value]

\* target = source.copy()
CopyList(target, source) == [kind |-> "copy", target |-> target, source |-> source]

\* target.append(x), target.extend(xs), target += xs: in place.
Extend(target, value) == [kind |-> "extend", target |-> target, value |-> value]

\* target.add(x) on a set: in place.
AddAll(target, value) == [kind |-> "add", target |-> target, value |-> value]

\* target.sort(key=lambda x: x[1], reverse=True): in place.
SortInPlace(target) == [kind |-> "sort", target |-> target]

\* The last of the first n statements that makes or changes the object
\* `ref', or 0 if none does.
LastOn(statements, ref, n) ==
  LET on == {i \in 1..n : statements[i].target = ref}
  IN  IF on = {} THEN 0 ELSE CHOOSE i \in on : \A j \in on : j <= i

\* The contents of the object `ref' after the first n statements have run
\* on the heap h, in order: what the last statement on it made of it.  A copy
\* reads its source as the statements before it left it, and a statement in
\* place reads its target so.
RECURSIVE ValueAt(_, _, _, _)
ValueAt(h, statements, ref, n) ==
  LET last == LastOn(statements, ref, n)
      statement == statements[last]
  IN  IF last = 0 THEN h[ref]
      ELSE CASE statement.kind = "new" -> statement.value
             [] statement.kind = "copy" ->
                  ValueAt(h, statements, statement.source, last - 1)
             [] statement.kind = "extend" ->
                  ValueAt(h, statements, ref, last - 1) \o statement.value
             [] statement.kind = "add" ->
                  ValueAt(h, statements, ref, last - 1) \cup statement.value
             [] statement.kind = "sort" ->
                  sort_by_score(ValueAt(h, statements, ref, last - 1))

\* The heap after the statements have run on the heap h, in order.
Run(h, statements) ==
  [ref \in DOMAIN h \cup {statements[i].target : i \in 1..Len(statements)} |->
     ValueAt(h, statements, ref, Len(statements))]

\* The heap once the objects that nobody refers to any more are gone.
Collect(h, alive) == [r \in DOMAIN h \cap alive |-> h[r]]

\* validate_item: the statements on its lists, and the lists of its result.
validate_item_statements(new, base, current_outfit) ==
  LET warnings == Ref("validate_item", "warnings", "")
      colors == Ref("validate_item", "color_warnings", "")
      formality == Ref("validate_item", "formality_warnings", "")
      pairings == Ref("validate_item", "pairing_warnings", "")
      aesthetic == check_aesthetic_compatibility(new.aesthetics, base.aesthetics)
  IN  << NewList(warnings, <<>>),
         NewList(colors, <<>>),
         Extend(colors, color_warnings(new, base, current_outfit)),
         Extend(warnings, color_warnings(new, base, current_outfit)),
         NewList(formality, <<>>),
         Extend(formality, formality_checks(new, <<base>> \o current_outfit,
                                            1 + Len(current_outfit)).warnings),
         Extend(warnings, formality_checks(new, <<base>> \o current_outfit,
                                           1 + Len(current_outfit)).warnings),
         NewList(Ref("check_aesthetic_compatibility", "set1", ""), Range(new.aesthetics)),
         NewList(Ref("check_aesthetic_compatibility", "set2", ""), Range(base.aesthetics)),
         Extend(warnings, IF aesthetic[2] # None THEN <<aesthetic[2]>> ELSE <<>>),
         NewList(pairings, <<>>),
         Extend(pairings, pairing_warnings(new, base, current_outfit)),
         Extend(warnings, pairing_warnings(new, base, current_outfit)) >>

validate_item_lists == {Ref("validate_item", "warnings", "")}

\* validate_outfit, with check_outfit_composition and calculate_cohesion_score
\* that it calls; missing_categories is the list that list(missing) is.
validate_outfit_statements(its, base, missing_categories) ==
  LET validated == validate_outfit(its, base, missing_categories)
      outfit == full_outfit(its, base)
      warnings == Ref("validate_outfit", "warnings", "")
  IN  << NewList(Ref("validate_outfit", "full_outfit", ""), outfit),
         NewList(Ref("check_outfit_composition", "l1_categories", ""),
                 {outfit[i].category.l1 : i \in 1..Len(outfit)}),
         NewList(Ref("check_outfit_composition", "missing", ""),
                 check_outfit_composition(outfit)[2]),
         NewList(Ref("check_outfit_composition", "list(missing)", ""), missing_categories),
         NewList(warnings, <<>>),
         Extend(warnings, SubSeq(validated.warnings, 1,
                                 Len(validated.warnings)
                                   - Len(all_pair_warnings(outfit, PairIndices(Len(outfit)))))),
         NewList(Ref("calculate_cohesion_score", "all_items", ""), <<base>> \o its),
         Extend(warnings, all_pair_warnings(outfit, PairIndices(Len(outfit)))),
         NewList(Ref("validate_outfit", "color_strip", ""), validated.color_strip) >>

validate_outfit_lists ==
  {Ref("validate_outfit", "warnings", ""), Ref("validate_outfit", "color_strip", "")}

\* generate_recommended_colors; `key' tells the calls of one run of
\* generate_category_recommendations apart.
generate_recommended_colors_statements(base_color, include_neutrals, key) ==
  LET recommended_colors == Ref("generate_recommended_colors", "recommended_colors", key)
      seen_hex == Ref("generate_recommended_colors", "seen_hex", key)
      non_neutral_recs == Ref("generate_recommended_colors", "non_neutral_recs", key)
      neutrals == neutral_recommendations(Len(NEUTRAL_COLORS))
      analogous == get_analogous_hsl(base_color.hsl)
      recs == << hsl_to_rec(base_color, analogous[1]),
                 hsl_to_rec(base_color, analogous[2]),
                 hsl_to_rec(base_color, get_complementary_hsl(base_color.hsl)) >>
  IN  << NewList(recommended_colors, <<>>) >>
      \o (IF include_neutrals
            THEN << NewList(seen_hex, {}),
                    Extend(recommended_colors, neutrals),
                    AddAll(seen_hex, {neutrals[i].hex : i \in 1..Len(neutrals)}) >>
            ELSE <<>>)
      \o (IF is_neutral_color(base_color.name) THEN <<>>
          ELSE << NewList(non_neutral_recs, recs),
                  Extend(recommended_colors, recs) >>)

\* The list that generate_recommended_colors returns.
generate_recommended_colors_list(key) ==
  Ref("generate_recommended_colors", "recommended_colors", key)

\* Mutant of suggested_l2_object: CATEGORY_TAXONOMY.get(category_l1, [])
\* without its .copy().
suggested_l2_object_shared(category_l1, base) ==
  LET taxonomy == Ref("CATEGORY_TAXONOMY", "list", category_l1)
      reordered == Ref("generate_category_recommendations", "suggested_l2 (reordered)",
                       category_l1)
  IN  IF base.formality >= Level(4) \/ base.formality <= Level(2)
        THEN [statements |-> <<NewList(reordered, suggested_l2(category_l1, base))>>,
              reference |-> reordered]
      ELSE [statements |-> <<>>, reference |-> taxonomy]

\* The list that the name suggested_l2 ends up bound to, and the statements
\* that make it: the copy of the table's list, and for a formal or a casual
\* base item the sum of two comprehensions over that copy.
suggested_l2_object(category_l1, base) ==
  LET taxonomy == Ref("CATEGORY_TAXONOMY", "list", category_l1)
      copied == Ref("generate_category_recommendations", "suggested_l2", category_l1)
      reordered == Ref("generate_category_recommendations", "suggested_l2 (reordered)",
                       category_l1)
  IN  IF base.formality >= Level(4) \/ base.formality <= Level(2)
        THEN [statements |-> << CopyList(copied, taxonomy),
                                NewList(reordered, suggested_l2(category_l1, base)) >>,
              reference |-> reordered]
      ELSE [statements |-> <<CopyList(copied, taxonomy)>>, reference |-> copied]

\* The list that the name aesthetics is bound to for one category.
aesthetics_object(category_l1) ==
  Ref("generate_category_recommendations", "aesthetics", category_l1)

\* The body of the loop of generate_category_recommendations for one category.
category_statements(category_l1, base) ==
  generate_recommended_colors_statements(base.color, TRUE, category_l1)
    \o << CopyList(aesthetics_object(category_l1), Ref("argument", "base_item.aesthetics", "")) >>
    \o suggested_l2_object(category_l1, base).statements
    \o << Extend(Ref("generate_category_recommendations", "recommendations", ""),
                 <<CategoryRecommendation(category_l1, base)>>) >>

\* The loop over the first n categories.
RECURSIVE categories_statements(_, _, _)
categories_statements(categories, base, n) ==
  IF n = 0 THEN <<>>
  ELSE categories_statements(categories, base, n - 1)
         \o category_statements(categories[n], base)

generate_category_recommendations_statements(base, filled) ==
  << NewList(Ref("generate_category_recommendations", "recommendations", ""), <<>>) >>
    \o (IF base.category.l1 = "Full Body" THEN <<>>
        ELSE <<NewList(Ref("generate_category_recommendations", "all_categories", ""),
                       CATEGORY_L1)>>)
    \o << NewList(Ref("generate_category_recommendations", "categories_to_recommend", ""),
                  categories_to_recommend(base, filled)) >>
    \o categories_statements(categories_to_recommend(base, filled), base,
                             Len(categories_to_recommend(base, filled)))

\* The lists of the result: the list of recommendations and, in every
\* recommendation, colors, aesthetics and suggested_l2.
generate_category_recommendations_lists(base, filled) ==
  LET categories == Range(categories_to_recommend(base, filled))
  IN  {Ref("generate_category_recommendations", "recommendations", "")}
        \cup {generate_recommended_colors_list(c) : c \in categories}
        \cup {aesthetics_object(c) : c \in categories}
        \cup {suggested_l2_object(c, base).reference : c \in categories}

\* filter_and_rank_items.
filter_and_rank_items_statements(its, category_l1, recommended_colors, the_range, limit, min_score) ==
  LET category_items == SelectSeq(its, LAMBDA item : item.category.l1 = category_l1)
      scored(item) == score_item_match(item, recommended_colors, the_range)
      kept == SelectSeq(category_items, LAMBDA item : ScoreGE(scored(item), min_score))
      scored_items == Ref("filter_and_rank_items", "scored_items", "")
  IN  << NewList(Ref("filter_and_rank_items", "category_items", ""), category_items),
         NewList(scored_items, <<>>),
         Extend(scored_items, [i \in 1..Len(kept) |-> <<kept[i], scored(kept[i])>>]),
         SortInPlace(scored_items),
         NewList(Ref("filter_and_rank_items", "return", ""),
                 filter_and_rank_items(its, category_l1, recommended_colors, the_range,
                                       limit, min_score)) >>

filter_and_rank_items_lists == {Ref("filter_and_rank_items", "return", "")}

---------------------------------------------------------------------------
(* The caller of the five functions of the core, in any order, on          *)
(* arguments that it keeps: the heap holds the tables, the lists of the    *)
(* arguments and the lists of the last result.                             *)

FrameBases ==
  { ClothingItemBase(color, Category(l1, CATEGORY_TAXONOMY[l1][1]), formality,
                     <<"Classic", "Minimalist">>) :
      color \in {Navy, Red}, l1 \in {"Tops", "Full Body"},
      formality \in {Level(1), Level(3), Level(5)} }

FrameJeans == ClothingItemBase(Red, Category("Bottoms", "Jeans"), Level(2), <<"Minimalist">>)

FrameOxfords == ClothingItemBase(Green, Category("Shoes", "Oxfords"), Level(5), <<"Classic">>)

FrameOutfits == {<<>>, <<FrameJeans>>, <<FrameOxfords, FrameJeans>>}

FrameFilled == {<<>>, <<"Shoes">>, <<"Shoes", "Accessories">>}

\* The list passed as recommended_colors to filter_and_rank_items.
FrameColors == generate_recommended_colors(Red, TRUE)

IndexName(i) == <<"1", "2">>[i]

\* The lists that the caller passes: the tag lists of the items, the list of
\* items, filled_categories and recommended_colors.
ArgumentRefs ==
  { Ref("argument", "base_item.aesthetics", ""), Ref("argument", "new_item.aesthetics", ""),
    Ref("argument", "items", ""), Ref("argument", "filled_categories", ""),
    Ref("argument", "recommended_colors", "") }
    \cup {Ref("argument", "items[i].aesthetics", IndexName(i)) : i \in 1..Len(items)}

ArgumentValue(ref) ==
  CASE ref[2] = "base_item.aesthetics" -> base_item.aesthetics
    [] ref[2] = "new_item.aesthetics" -> new_item.aesthetics
    [] ref[2] = "items" -> items
    [] ref[2] = "filled_categories" -> filled_categories
    [] ref[2] = "recommended_colors" -> FrameColors
    [] ref[2] = "items[i].aesthetics" ->
         items[CHOOSE i \in 1..Len(items) : IndexName(i) = ref[3]].aesthetics

InitFrame ==
  /\ base_item \in FrameBases
  /\ items \in FrameOutfits
  /\ new_item \in {FrameJeans, FrameOxfords}
  /\ filled_categories \in FrameFilled
  /\ result = NoResult
  /\ heap = [r \in TableRefs \cup ArgumentRefs |->
               IF r \in TableRefs THEN TableValue(r) ELSE ArgumentValue(r)]

\* The heap after a call: its statements have run, the result holds the
\* lists `lists', and the locals that the result does not hold are gone.
Returned(statements, lists) ==
  Collect(Run(heap, statements), TableRefs \cup ArgumentRefs \cup lists)

FrameValidateItem ==
  /\ heap' = Returned(validate_item_statements(new_item, base_item, items),
                      validate_item_lists)
  /\ result' = [op |-> "validate_item", lists |-> validate_item_lists]
  /\ UNCHANGED <<base_item, items, new_item, filled_categories>>

FrameValidateOutfit ==
  \E missing_categories \in ListsOf(check_outfit_composition(full_outfit(items, base_item))[2]) :
    /\ heap' = Returned(validate_outfit_statements(items, base_item, missing_categories),
                        validate_outfit_lists)
    /\ result' = [op |-> "validate_outfit", lists |-> validate_outfit_lists]
    /\ UNCHANGED <<base_item, items, new_item, filled_categories>>

FrameRecommendedColors ==
  \E include_neutrals \in BOOLEAN :
    /\ heap' = Returned(generate_recommended_colors_statements(base_item.color,
                                                               include_neutrals, ""),
                        {generate_recommended_colors_list("")})
    /\ result' = [op |-> "generate_recommended_colors",
                  lists |-> {generate_recommended_colors_list("")}]
    /\ UNCHANGED <<base_item, items, new_item, filled_categories>>

FrameCategoryRecommendations ==
  /\ heap' = Returned(generate_category_recommendations_statements(base_item,
                                                                   filled_categories),
                      generate_category_recommendations_lists(base_item, filled_categories))
  /\ result' = [op |-> "generate_category_recommendations",
                lists |-> generate_category_recommendations_lists(base_item,
                                                                  filled_categories)]
  /\ UNCHANGED <<base_item, items, new_item, filled_categories>>

FrameFilterAndRank ==
  \E category_l1 \in {"Bottoms", "Shoes"} :
    /\ heap' = Returned(filter_and_rank_items_statements(items, category_l1, FrameColors,
                                                         FormalityRange(Level(2), Level(4)),
                                                         1, Points(40)),
                        filter_and_rank_items_lists)
    /\ result' = [op |-> "filter_and_rank_items", lists |-> filter_and_rank_items_lists]
    /\ UNCHANGED <<base_item, items, new_item, filled_categories>>

NextFrame ==
  \/ FrameValidateItem
  \/ FrameValidateOutfit
  \/ FrameRecommendedColors
  \/ FrameCategoryRecommendations
  \/ FrameFilterAndRank

SpecFrame == InitFrame /\ [][NextFrame]_vars

---------------------------------------------------------------------------
(* Claims about the state of the core, checked under SpecFrame.            *)

TablesIntact == \A t \in TableRefs : t \in DOMAIN heap /\ heap[t] = TableValue(t)

ArgumentsIntact == \A a \in ArgumentRefs : a \in DOMAIN heap /\ heap[a] = ArgumentValue(a)

RecommendationsMade == result.op = "generate_category_recommendations"

\* The lists of the recommendations hold what the recommendations hold.
RecommendationListsFilled ==
  LET recommendations == generate_category_recommendations(base_item, filled_categories)
  IN  /\ heap[Ref("generate_category_recommendations", "recommendations", "")] = recommendations
      /\ \A i \in 1..Len(recommendations) :
           LET c == recommendations[i].category_l1
           IN  /\ heap[aesthetics_object(c)] = base_item.aesthetics
               /\ heap[suggested_l2_object(c, base_item).reference]
                    = recommendations[i].suggested_l2
               /\ heap[generate_recommended_colors_list(c)] = recommendations[i].colors

\* C21: the core keeps no state: after any sequence of calls of
\* validate_item, validate_outfit, generate_category_recommendations,
\* generate_recommended_colors and filter_and_rank_items the static tables
\* and every list passed in (item lists, tag lists, filled_categories) are
\* unchanged, and the lists placed in a result (aesthetics, suggested_l2,
\* colors) are objects of their own, equal in content to their sources, that
\* are neither a list of the base item nor a list of the tables.
C21_NoStateKept ==
  /\ TablesIntact
  /\ ArgumentsIntact
  /\ result.op # "none" =>
       /\ result.lists \subseteq DOMAIN heap
       /\ result.lists \cap (TableRefs \cup ArgumentRefs) = {}
  /\ RecommendationsMade => RecommendationListsFilled

\* C21 witness: recommendations for a base item of formality 3.0, whose
\* suggested_l2 are the copies of the table's lists in the table's order.
C21_Witness ==
  /\ RecommendationsMade
  /\ base_item.formality = Level(3)
  /\ base_item.category.l1 = "Tops"
  /\ filled_categories = <<"Shoes">>
  /\ Cardinality(result.lists) = 13
  /\ heap[Ref("generate_category_recommendations", "suggested_l2", "Bottoms")]
       = CATEGORY_TAXONOMY["Bottoms"]

=============================================================================
